---- MODULE Spec2Model ----
(***************************************************************************)
(* Fraud-detection rules over trajectory events.  Every rule is a detect   *)
(* function (rule, events, context) -> findings | False.  The model has    *)
(* one action per detect function; the group of events and the context a   *)
(* rule is called with are drawn from bounded sets by that rule's Init.    *)
(*                                                                         *)
(* Times are integers counting hours; a calendar date is hour \div 24.     *)
(* A quotient distance / speed is never formed: comparisons with it are    *)
(* cross-multiplied by the (positive) speed.                               *)
(***************************************************************************)
EXTENDS Integers, Sequences, FiniteSets, TLC

VARIABLES
    rule_id,    \* the rule whose detect function is evaluated
    events,     \* the group of events handed to detect
    context,    \* the context mapping handed to detect
    result,     \* what detect returned (or that it raised)
    locals,     \* detect's per-user working lists when it ended
    pc          \* "ready" before the call, "done" after it

vars == <<rule_id, events, context, result, locals, pc>>

(***************************************************************************)
(* Bounds of the model.                                                    *)
(***************************************************************************)
MaxGroupNF == 2

MaxGroupCheckin == 2

MaxGroupUbiq == 3

MaxGroupTaxi == 4

MaxGroupSeq == 3

MaxGroupMulticity == 4

MaxUsersGroupMulticity == 3

MaxGroupReverse == 2

MaxGroupRoute == 2

MaxGroupArrival == 2

MaxGroupShared == 2

MaxGroupNofunc == 3

MaxGroupNoTravel == 2

MaxGroupConflict == 2

RunsNofunc == 2

MaxGroupMismatch == 3

MaxGroupCheckInOut == 3

MaxGroupFuel == 2

MaxGroupTemporal == 3

(***************************************************************************)
(* Python helpers.                                                         *)
(***************************************************************************)
None == "None"

Abs(x) == IF x < 0 THEN -x ELSE x

Max2(a, b) == IF a >= b THEN a ELSE b

Min2(a, b) == IF a <= b THEN a ELSE b

HoursPerDay == 24

\* datetime.date(): the calendar day of a timestamp
DateOf(t) == t \div HoursPerDay

\* keys of a dict in insertion order: first occurrences, in order
RECURSIVE KeysInOrder(_)
KeysInOrder(s) ==
    IF s = <<>> THEN <<>>
    ELSE LET r == KeysInOrder(SubSeq(s, 1, Len(s) - 1))
             k == s[Len(s)]
         IN IF \E i \in 1..Len(r) : r[i] = k THEN r ELSE Append(r, k)

RECURSIVE Concat(_)
Concat(ss) == IF ss = <<>> THEN <<>> ELSE Head(ss) \o Concat(Tail(ss))

\* list.sort(key=lambda e: e.time_window.earliest_start): stable
RECURSIVE InsertByStart(_, _)
InsertByStart(e, s) ==
    IF s = <<>> THEN <<e>>
    ELSE IF Head(s).earliest_start <= e.earliest_start
         THEN <<Head(s)>> \o InsertByStart(e, Tail(s))
         ELSE <<e>> \o s

RECURSIVE SortByStart(_)
SortByStart(s) ==
    IF s = <<>> THEN <<>>
    ELSE InsertByStart(s[Len(s)], SortByStart(SubSeq(s, 1, Len(s) - 1)))

\* the pairs (i, j), i < j, in the order of the nested range loops
IndexPairs(n) ==
    Concat([i \in 1..n |-> [k \in 1..(n - i) |-> <<i, i + k>>]])

\* what a detect function hands back: a list of findings, or False
Returned(findings) ==
    IF findings = <<>> THEN [status |-> "False", findings |-> <<>>]
    ELSE [status |-> "findings", findings |-> findings]

Raised == [status |-> "raise", findings |-> <<>>]

NotRun == [status |-> "none", findings |-> <<>>]

\* an exact_start_time or exact_end_time that is None
NoTime == -1

\* context.get(key, default)
ContextGet(ctx, key, default) == IF key \in DOMAIN ctx THEN ctx[key] ELSE default

(***************************************************************************)
(* Helpers every rule object carries (expensecbr.fde).                     *)
(***************************************************************************)
\* the answer of the distance service for an unmapped pair of cities
UnknownKm == -2

\* the distance table behind rule.get_distance, one entry per unordered pair
DistanceTable ==
    (<<"A", "B">> :> 200) @@ (<<"A", "C">> :> 1000) @@ (<<"B", "C">> :> 600)
    @@ (<<"A", "D">> :> 100) @@ (<<"C", "D">> :> 500) @@ (<<"A", "E">> :> 1)

\* rule.get_distance(loc1, loc2) -> km | None
get_distance(city1, city2) ==
    IF city1 = city2 THEN 0
    ELSE IF <<city1, city2>> \in DOMAIN DistanceTable THEN DistanceTable[<<city1, city2>>]
    ELSE IF <<city2, city1>> \in DOMAIN DistanceTable THEN DistanceTable[<<city2, city1>>]
    ELSE UnknownKm

\* rule.is_within_distance(loc1, loc2, max_distance_km)
is_within_distance(loc1, loc2, max_distance_km) ==
    get_distance(loc1, loc2) # UnknownKm /\ get_distance(loc1, loc2) <= max_distance_km

\* rule.calculate_travel_time(loc1, loc2, speed_kmh) * speed_kmh
travel_time_x_speed(loc1, loc2) == get_distance(loc1, loc2)

\* rule.is_same_city(loc1, loc2)
is_same_city(city1, city2) == city1 = city2

\* rule.time_difference(time1, time2, unit="hours"): time2 - time1
time_difference(time1, time2) == time2 - time1

(***************************************************************************)
(* llm-rules-partial-functions/rules/fd_ubiquitous_presence.py             *)
(***************************************************************************)
\* float('inf'): a code outside the range of real distances
Inf == -1

CITY_DISTANCES ==
    (<<"Beijing", "Shanghai">> :> 1318) @@ (<<"Beijing", "Wuhan">> :> 1052)
    @@ (<<"Shanghai", "Wuhan">> :> 686)

MAX_REASONABLE_DAILY_TRAVEL_KM == 1200

HighSpeedRailKmh == 300

\* a lookup of the pair as given only
get_city_distance_as_given(city1, city2) ==
    IF <<city1, city2>> \in DOMAIN CITY_DISTANCES THEN CITY_DISTANCES[<<city1, city2>>]
    ELSE Inf

get_city_distance(city1, city2) ==
    IF <<city1, city2>> \in DOMAIN CITY_DISTANCES THEN CITY_DISTANCES[<<city1, city2>>]
    ELSE IF <<city2, city1>> \in DOMAIN CITY_DISTANCES THEN CITY_DISTANCES[<<city2, city1>>]
    ELSE Inf

\* distance > MAX_REASONABLE_DAILY_TRAVEL_KM, distance possibly float('inf')
ExceedsDailyTravel(distance) ==
    IF distance = Inf THEN TRUE ELSE distance > MAX_REASONABLE_DAILY_TRAVEL_KM

\* time_diff < distance / 300, distance possibly float('inf')
BelowMinTravelHours(time_diff, distance) ==
    IF distance = Inf THEN TRUE ELSE time_diff * HighSpeedRailKmh < distance

\* the body of the loop over city pairs for one user and one date
ImpossibleCityPairsNF(daily_events) ==
    LET located == SelectSeq(daily_events, LAMBDA e : e.city # None)
        cities == KeysInOrder([i \in 1..Len(located) |-> located[i].city])
        EventsIn(c) == SortByStart(SelectSeq(located, LAMBDA e : e.city = c))
        Pair(p) ==
            LET city1 == cities[p[1]]
                city2 == cities[p[2]]
                distance == get_city_distance(city1, city2)
                city1_events == EventsIn(city1)
                city2_events == EventsIn(city2)
                city1_earliest == city1_events[1].earliest_start
                city1_latest == city1_events[Len(city1_events)].latest_end
                city2_earliest == city2_events[1].earliest_start
                city2_latest == city2_events[Len(city2_events)].latest_end
                time_diff1 == Abs(city2_earliest - city1_latest)
                time_diff2 == Abs(city1_earliest - city2_latest)
                impossible == BelowMinTravelHours(time_diff1, distance)
                              /\ BelowMinTravelHours(time_diff2, distance)
            IN IF ExceedsDailyTravel(distance) /\ impossible
               THEN <<[city1 |-> city1, city2 |-> city2, distance |-> distance]>>
               ELSE <<>>
        pairs == IndexPairs(Len(cities))
    IN IF Len(cities) < 2 THEN <<>>
       ELSE Concat([k \in 1..Len(pairs) |-> Pair(pairs[k])])

\* events_by_date of every user with two events or more: the ids of the
\* events of each (user, date) bucket
events_by_date_nf(evs) ==
    LET users == KeysInOrder([i \in 1..Len(evs) |-> evs[i].user_id])
        ForUser(user_id) ==
            LET user_events == SelectSeq(evs, LAMBDA e : e.user_id = user_id)
                dates == KeysInOrder([i \in 1..Len(user_events) |->
                                         DateOf(user_events[i].earliest_start)])
            IN IF Len(user_events) < 2 THEN <<>>
               ELSE [d \in 1..Len(dates) |->
                       [user_id |-> user_id,
                        event_date |-> dates[d],
                        daily_events |->
                            { user_events[i].event_id : i \in { k \in 1..Len(user_events) :
                                DateOf(user_events[k].earliest_start) = dates[d] } }]]
    IN Concat([u \in 1..Len(users) |-> ForUser(users[u])])

detect_ubiquitous_presence_nf(evs) ==
    IF evs = <<>> THEN Returned(<<>>)
    ELSE
    LET users == KeysInOrder([i \in 1..Len(evs) |-> evs[i].user_id])
        ForUser(user_id) ==
            LET user_events == SelectSeq(evs, LAMBDA e : e.user_id = user_id)
                dates == KeysInOrder([i \in 1..Len(user_events) |->
                                         DateOf(user_events[i].earliest_start)])
                ForDate(event_date) ==
                    LET daily_events == SelectSeq(user_events,
                            LAMBDA e : DateOf(e.earliest_start) = event_date)
                        impossible_city_pairs ==
                            IF Len(daily_events) < 2 THEN <<>>
                            ELSE ImpossibleCityPairsNF(daily_events)
                    IN IF impossible_city_pairs # <<>>
                       THEN <<[primary_event_id |-> daily_events[1].event_id,
                               user_id |-> user_id,
                               date |-> event_date,
                               impossible_city_pairs |-> impossible_city_pairs]>>
                       ELSE <<>>
            IN IF Len(user_events) < 2 THEN <<>>
               ELSE Concat([d \in 1..Len(dates) |-> ForDate(dates[d])])
    IN Returned(Concat([u \in 1..Len(users) |-> ForUser(users[u])]))

UsersNF == {"u1", "u2"}

CitiesNF == {"Beijing", "Shanghai", "Wuhan", "Hangzhou", None}

StartsNF == {0, 6, 24}

DurationsNF == {0, 1}

EventNF == [user_id : UsersNF, city : CitiesNF,
            earliest_start : StartsNF, dur : DurationsNF]

\* a group of n events; event_id is the position in the group
GroupsNF(n) ==
    { [i \in 1..n |-> [event_id |-> i, user_id |-> f[i].user_id, city |-> f[i].city,
                       earliest_start |-> f[i].earliest_start,
                       latest_end |-> f[i].earliest_start + f[i].dur,
                       exact_start_time |-> NoTime]] :
        f \in [1..n -> EventNF] }

\* <<earliest_start, latest_end>> around midnight of the first day
WindowsExactNF == {<<23, 25>>, <<24, 25>>}

\* exact_start_time: absent, or the midnight inside both windows
ExactStartsNF == {NoTime, 24}

\* groups of events around midnight, some with an exact start time
GroupsExactNF(n) ==
    { [i \in 1..n |-> [event_id |-> i, user_id |-> f[i][1], city |-> f[i][2],
                       earliest_start |-> f[i][3][1], latest_end |-> f[i][3][2],
                       exact_start_time |-> f[i][4]]] :
        f \in [1..n -> UsersNF \X {"Beijing", "Shanghai"} \X WindowsExactNF
                          \X ExactStartsNF] }

InitNF ==
    /\ rule_id = "FD-UBIQUITOUS-PRESENCE-NF"
    /\ \/ \E n \in 1..MaxGroupNF : events \in GroupsNF(n)
       \/ \E n \in 1..MaxGroupNF : events \in GroupsExactNF(n)
    /\ context = <<>>
    /\ result = NotRun
    /\ locals = <<>>
    /\ pc = "ready"

DetectUbiquitousPresenceNF ==
    /\ rule_id = "FD-UBIQUITOUS-PRESENCE-NF"
    /\ pc = "ready"
    /\ result' = detect_ubiquitous_presence_nf(events)
    /\ locals' = events_by_date_nf(events)
    /\ pc' = "done"
    /\ UNCHANGED <<rule_id, events, context>>

NextNF == DetectUbiquitousPresenceNF

SpecNF == InitNF /\ [][NextNF]_vars

\* C18: get_city_distance(X, Y) = get_city_distance(Y, X) for the cities of
\* any two events of the group, whether the pair is in CITY_DISTANCES (in
\* either orientation) or absent from it; the distance a finding reports for
\* (city1, city2) is the distance of (city2, city1).
C18_CityDistanceSymmetric ==
    pc = "done" =>
        /\ \A i, j \in 1..Len(events) :
              get_city_distance(events[i].city, events[j].city)
                  = get_city_distance(events[j].city, events[i].city)
        /\ \A f \in 1..Len(result.findings) :
              \A k \in 1..Len(result.findings[f].impossible_city_pairs) :
                 LET p == result.findings[f].impossible_city_pairs[k]
                 IN p.distance = get_city_distance(p.city2, p.city1)

\* C18 witness: a finding reports a pair that CITY_DISTANCES holds in the
\* other orientation only, with the distance of that entry.
C18_Witness ==
    /\ pc = "done"
    /\ \E f \in 1..Len(result.findings) :
          \E k \in 1..Len(result.findings[f].impossible_city_pairs) :
             LET p == result.findings[f].impossible_city_pairs[k]
             IN /\ <<p.city1, p.city2>> \notin DOMAIN CITY_DISTANCES
                /\ <<p.city2, p.city1>> \in DOMAIN CITY_DISTANCES
                /\ p.distance = CITY_DISTANCES[<<p.city2, p.city1>>]

\* C1: a same-day city pair absent from CITY_DISTANCES (in either
\* orientation) is never added to impossible_city_pairs of any finding.
C1_UnknownPairNeverImpossible ==
    pc = "done" =>
        \A i \in 1..Len(result.findings) :
            \A k \in 1..Len(result.findings[i].impossible_city_pairs) :
                LET p == result.findings[i].impossible_city_pairs[k]
                IN <<p.city1, p.city2>> \in DOMAIN CITY_DISTANCES
                   \/ <<p.city2, p.city1>> \in DOMAIN CITY_DISTANCES

(***************************************************************************)
(* llm_rules/fd_checkin_different_cities_same_day.py                       *)
(***************************************************************************)
\* the body of the pair loop for one user and one date
SuspiciousPairsCheckin(daily_checkins, ctx) ==
    LET max_travel_speed == ContextGet(ctx, "max_travel_speed_kmh", 200)
        min_travel_hours == ContextGet(ctx, "min_travel_hours", 1)
        min_suspicious_distance == ContextGet(ctx, "min_suspicious_distance", 150)
        Pair(p) ==
            LET event1 == daily_checkins[p[1]]
                event2 == daily_checkins[p[2]]
                distance == get_distance(event1.city, event2.city)
                \* required_travel_time, times max_travel_speed
                required_x_speed == distance + min_travel_hours * max_travel_speed
                first_diff == Abs(time_difference(event1.latest_end,
                                                  event2.earliest_start))
                time_diff_hours ==
                    IF first_diff * max_travel_speed >= required_x_speed
                    THEN Abs(time_difference(event2.latest_end,
                                             event1.earliest_start))
                    ELSE first_diff
            IN IF is_same_city(event1.city, event2.city) THEN <<>>
               ELSE IF distance = UnknownKm \/ distance < min_suspicious_distance
               THEN <<>>
               ELSE IF time_diff_hours * max_travel_speed < required_x_speed
               THEN <<[event1_id |-> event1.event_id, event2_id |-> event2.event_id,
                       distance_km |-> distance, time_diff_hours |-> time_diff_hours,
                       city1 |-> event1.city, city2 |-> event2.city]>>
               ELSE <<>>
        pairs == IndexPairs(Len(daily_checkins))
    IN Concat([k \in 1..Len(pairs) |-> Pair(pairs[k])])

detect_same_day_multi_city_checkins(evs, ctx) ==
    LET checkin_events == SelectSeq(evs, LAMBDA e : e.kind = "DailyCheckInEvent")
        users == KeysInOrder([i \in 1..Len(checkin_events) |-> checkin_events[i].user_id])
        ForUser(user_id) ==
            LET user_events == SelectSeq(checkin_events, LAMBDA e : e.user_id = user_id)
                dates == KeysInOrder([i \in 1..Len(user_events) |->
                                         DateOf(user_events[i].earliest_start)])
                ForDate(date) ==
                    LET daily_checkins == SelectSeq(user_events,
                            LAMBDA e : DateOf(e.earliest_start) = date)
                        suspicious_pairs ==
                            IF Len(daily_checkins) < 2 THEN <<>>
                            ELSE SuspiciousPairsCheckin(daily_checkins, ctx)
                    IN IF suspicious_pairs # <<>>
                       THEN <<[primary_event_id |-> daily_checkins[1].event_id,
                               user_id |-> user_id,
                               date |-> date,
                               suspicious_pairs |-> suspicious_pairs,
                               checkin_count |-> Len(daily_checkins)]>>
                       ELSE <<>>
            IN IF Len(user_events) < 2 THEN <<>>
               ELSE Concat([d \in 1..Len(dates) |-> ForDate(dates[d])])
    IN IF Len(checkin_events) < 2 THEN Returned(<<>>)
       ELSE Returned(Concat([u \in 1..Len(users) |-> ForUser(users[u])]))

UsersCheckin == {"u1", "u2"}

KindsCheckin == {"DailyCheckInEvent", "HotelEvent"}

CitiesCheckin == {"A", "B", "C", "D"}

StartsCheckin == {0, 2, 8, 24}

DurationsCheckin == {0, 1, 6}

ContextsCheckin == {<<>>, [max_travel_speed_kmh |-> 100, min_travel_hours |-> 2]}

EventCheckin == [user_id : UsersCheckin, kind : KindsCheckin, city : CitiesCheckin,
                 earliest_start : StartsCheckin, dur : DurationsCheckin]

GroupsCheckin(n) ==
    { [i \in 1..n |-> [event_id |-> i, user_id |-> f[i].user_id, kind |-> f[i].kind,
                       city |-> f[i].city,
                       earliest_start |-> f[i].earliest_start,
                       latest_end |-> f[i].earliest_start + f[i].dur]] :
        f \in [1..n -> EventCheckin] }

InitCheckin ==
    /\ rule_id = "FD-CHECKIN-DIFFERENT-CITIES-SAME-DAY"
    /\ \E n \in 1..MaxGroupCheckin : events \in GroupsCheckin(n)
    /\ context \in ContextsCheckin
    /\ result = NotRun
    /\ locals = <<>>
    /\ pc = "ready"

DetectSameDayMultiCityCheckins ==
    /\ rule_id = "FD-CHECKIN-DIFFERENT-CITIES-SAME-DAY"
    /\ pc = "ready"
    /\ result' = detect_same_day_multi_city_checkins(events, context)
    /\ pc' = "done"
    /\ UNCHANGED <<rule_id, events, context, locals>>

NextCheckin == DetectSameDayMultiCityCheckins

SpecCheckin == InitCheckin /\ [][NextCheckin]_vars

\* C2: a pair of same-day check-ins is reported only if travel is impossible
\* under every resolution of the two windows: the most favourable available
\* time max(latest_end2 - earliest_start1, latest_end1 - earliest_start2) is
\* below distance / max_travel_speed + min_travel_hours.
C2_ReportedOnlyIfImpossibleUnderEveryResolution ==
    pc = "done" =>
        \A i \in 1..Len(result.findings) :
            \A k \in 1..Len(result.findings[i].suspicious_pairs) :
                LET p == result.findings[i].suspicious_pairs[k]
                    event1 == events[p.event1_id]
                    event2 == events[p.event2_id]
                    speed == ContextGet(context, "max_travel_speed_kmh", 200)
                    overhead == ContextGet(context, "min_travel_hours", 1)
                    favourable == Max2(event2.latest_end - event1.earliest_start,
                                       event1.latest_end - event2.earliest_start)
                IN favourable * speed < p.distance_km + overhead * speed

(***************************************************************************)
(* llm_rules/fd_ubiquitous_presence.py                                     *)
(***************************************************************************)
\* event.location is None (a directed flight or railway event)
NoLocation == "NoLocation"

MinOf(S) == CHOOSE x \in S : \A y \in S : x <= y

MaxOf(S) == CHOOSE x \in S : \A y \in S : x >= y

\* the most favourable time available between two cities, as lines 90-92
available_time_min(city1_earliest, city1_latest, city2_earliest, city2_latest) ==
    Min2(Abs(time_difference(city1_earliest, city2_latest)),
         Abs(time_difference(city2_earliest, city1_latest)))

available_time(city1_earliest, city1_latest, city2_earliest, city2_latest) ==
    Max2(Abs(time_difference(city1_earliest, city2_latest)),
         Abs(time_difference(city2_earliest, city1_latest)))

\* max_time_diff < distance / max_travel_speed_kmh
travel_impossible_inclusive(max_time_diff, distance, max_travel_speed_kmh) ==
    max_time_diff * max_travel_speed_kmh <= distance

travel_impossible(max_time_diff, distance, max_travel_speed_kmh) ==
    max_time_diff * max_travel_speed_kmh < distance

\* the nested loop over city pairs for one user: distant_city_pairs
distant_city_pairs(user_event_list, ctx) ==
    LET min_city_distance_km == ContextGet(ctx, "ubiquitous_min_distance_km", 500)
        max_travel_speed_kmh == ContextGet(ctx, "ubiquitous_max_travel_speed_kmh", 500)
        with_city == SelectSeq(user_event_list, LAMBDA e : e.city # "")
        city_names == KeysInOrder([i \in 1..Len(with_city) |-> with_city[i].city])
        TimesIn(c) ==
            { with_city[i].earliest_start : i \in { k \in 1..Len(with_city) : with_city[k].city = c } }
            \cup { with_city[i].latest_end : i \in { k \in 1..Len(with_city) : with_city[k].city = c } }
        Pair(p) ==
            LET city1 == city_names[p[1]]
                city2 == city_names[p[2]]
                distance == get_distance(city1, city2)
                city1_earliest == MinOf(TimesIn(city1))
                city1_latest == MaxOf(TimesIn(city1))
                city2_earliest == MinOf(TimesIn(city2))
                city2_latest == MaxOf(TimesIn(city2))
                max_time_diff == available_time(city1_earliest, city1_latest,
                                                city2_earliest, city2_latest)
            IN IF distance = UnknownKm \/ distance < min_city_distance_km THEN <<>>
               ELSE IF travel_impossible(max_time_diff, distance, max_travel_speed_kmh)
               THEN <<[city1 |-> city1, city2 |-> city2, distance_km |-> distance,
                       available_time_hours |-> max_time_diff]>>
               ELSE <<>>
        pairs == IndexPairs(Len(city_names))
    IN Concat([k \in 1..Len(pairs) |-> Pair(pairs[k])])

\* the users whose events the loop reads: those with enough events
UsersScannedUbiq(evs, ctx) ==
    LET min_city_count == ContextGet(ctx, "ubiquitous_min_city_count", 3)
        users == KeysInOrder([i \in 1..Len(evs) |-> evs[i].user_id])
    IN SelectSeq(users, LAMBDA u :
           Len(SelectSeq(evs, LAMBDA e : e.user_id = u)) >= min_city_count)

\* city = event.location.city fails on an event without a location
RaisesUbiq(evs, ctx) ==
    LET scanned == UsersScannedUbiq(evs, ctx)
    IN \E k \in 1..Len(scanned) : \E i \in 1..Len(evs) :
           evs[i].user_id = scanned[k] /\ evs[i].city = NoLocation

\* user -> distant_city_pairs, for the users with enough distinct cities
LocalsUbiq(evs, ctx) ==
    LET min_city_count == ContextGet(ctx, "ubiquitous_min_city_count", 3)
        scanned == UsersScannedUbiq(evs, ctx)
        UserEvents(u) == SelectSeq(evs, LAMBDA e : e.user_id = u)
        Cities(u) == { evs[i].city : i \in { k \in 1..Len(evs) :
                           evs[k].user_id = u /\ evs[k].city # "" } }
    IN [u \in { scanned[k] : k \in { j \in 1..Len(scanned) :
                   Cardinality(Cities(scanned[j])) >= min_city_count } } |->
           distant_city_pairs(UserEvents(u), ctx)]

detect_ubiquitous_presence(evs, ctx) ==
    LET min_city_count == ContextGet(ctx, "ubiquitous_min_city_count", 3)
        scanned == UsersScannedUbiq(evs, ctx)
        found == LocalsUbiq(evs, ctx)
        ForUser(user_id) ==
            LET user_event_list == SelectSeq(evs, LAMBDA e : e.user_id = user_id)
                primary_event == SortByStart(user_event_list)[1]
            IN IF user_id \in DOMAIN found
                  /\ Len(found[user_id]) >= min_city_count - 1
               THEN <<[primary_event_id |-> primary_event.event_id,
                       user_id |-> user_id,
                       date |-> DateOf(primary_event.earliest_start),
                       city_count |-> Cardinality({ user_event_list[i].city :
                           i \in { k \in 1..Len(user_event_list) :
                                      user_event_list[k].city # "" } }),
                       distant_city_pairs |-> found[user_id]]>>
               ELSE <<>>
    IN IF evs = <<>> THEN Returned(<<>>)
       ELSE IF RaisesUbiq(evs, ctx) THEN Raised
       ELSE Returned(Concat([u \in 1..Len(scanned) |-> ForUser(scanned[u])]))

CitiesUbiq == {"A", "C", "D"}

\* the hours a window of the model starts or ends at
HoursUbiq == 0..2

WindowsUbiq == { w \in [earliest_start : HoursUbiq, latest_end : HoursUbiq] :
                    w.earliest_start <= w.latest_end }

ContextsUbiq == {<<>>, [ubiquitous_min_city_count |-> 2]}

MkEventUbiq(i, user_id, city, w) ==
    [event_id |-> i, user_id |-> user_id, city |-> city,
     earliest_start |-> w.earliest_start, latest_end |-> w.latest_end]

\* one user's located events, with every window within the time bound
GroupsWindowsUbiq(n) ==
    { [i \in 1..n |-> MkEventUbiq(i, "u1", f[i][1], f[i][2])] :
        f \in [1..n -> CitiesUbiq \X WindowsUbiq] }

\* two users' events, some without a city or without a location
GroupsLocationUbiq(n) ==
    { [i \in 1..n |-> MkEventUbiq(i, f[i][1], f[i][2],
                                  [earliest_start |-> 0, latest_end |-> f[i][3]])] :
        f \in [1..n -> {"u1", "u2"} \X {"A", "B", "C", "", NoLocation} \X {0}] }

InitUbiq ==
    /\ rule_id = "FD-UBIQUITOUS-PRESENCE"
    /\ \/ /\ \E n \in 1..MaxGroupUbiq : events \in GroupsWindowsUbiq(n)
          /\ context = <<>>
       \/ /\ \E n \in 1..MaxGroupUbiq : events \in GroupsLocationUbiq(n)
          /\ context \in ContextsUbiq
    /\ result = NotRun
    /\ locals = <<>>
    /\ pc = "ready"

DetectUbiquitousPresence ==
    /\ rule_id = "FD-UBIQUITOUS-PRESENCE"
    /\ pc = "ready"
    /\ result' = detect_ubiquitous_presence(events, context)
    /\ locals' = IF RaisesUbiq(events, context) THEN <<>> ELSE LocalsUbiq(events, context)
    /\ pc' = "done"
    /\ UNCHANGED <<rule_id, events, context>>

\* w with earliest_start moved earlier and/or latest_end moved later
Widenings(e) ==
    { [e EXCEPT !.earliest_start = s, !.latest_end = t] :
        s \in { h \in HoursUbiq : h <= e.earliest_start },
        t \in { h \in HoursUbiq : h >= e.latest_end } }
    \ {e}

\* the next evaluation pass sees the same group with one window widened
\* (windows are widened in the groups of one user's located events)
DetectUbiquitousPresenceWidened ==
    /\ rule_id = "FD-UBIQUITOUS-PRESENCE"
    /\ pc \in {"done", "rerun"}
    /\ context = <<>>
    /\ \A i \in 1..Len(events) : events[i].user_id = "u1" /\ events[i].city \in CitiesUbiq
    /\ \E i \in 1..Len(events) : \E w \in Widenings(events[i]) :
           events' = [events EXCEPT ![i] = w]
    /\ result' = detect_ubiquitous_presence(events', context)
    /\ locals' = IF RaisesUbiq(events', context) THEN <<>> ELSE LocalsUbiq(events', context)
    /\ pc' = "rerun"
    /\ UNCHANGED <<rule_id, context>>

NextUbiq == DetectUbiquitousPresence \/ DetectUbiquitousPresenceWidened

SpecUbiq == InitUbiq /\ [][NextUbiq]_vars

\* the unordered city pairs in a user's distant_city_pairs
PairSetUbiq(loc, u) ==
    IF u \in DOMAIN loc
    THEN { {loc[u][k].city1, loc[u][k].city2} : k \in 1..Len(loc[u]) }
    ELSE {}

\* C3: with earliest_start <= latest_end everywhere, a city pair that is not
\* counted as impossible is still not counted as impossible after a window is
\* widened, and widening never turns a no-finding result into a finding.
C3_WideningNeverCreatesImpossibility ==
    [][(pc \in {"done", "rerun"} /\ pc' = "rerun") =>
          /\ \A u \in DOMAIN locals' : PairSetUbiq(locals', u) \subseteq PairSetUbiq(locals, u)
          /\ result.status = "False" => result'.status = "False"]_vars

\* C3 witness: after a widening a pair that was impossible no longer is.
C3_Witness ==
    /\ pc = "rerun"
    /\ result.status = "False"
    /\ \E u \in DOMAIN locals : Len(locals[u]) = 1
    /\ \A i \in 1..Len(events) : events[i].earliest_start <= events[i].latest_end

\* the earliest and latest hour of a user's events in a city
CityHoursUbiq(u, c) ==
    UNION { {events[i].earliest_start, events[i].latest_end} :
              i \in { k \in 1..Len(events) : events[k].user_id = u /\ events[k].city = c } }

\* a = max(|city2_latest - city1_earliest|, |city1_latest - city2_earliest|)
AvailableUbiq(u, c1, c2) ==
    LET a1 == MaxOf(CityHoursUbiq(u, c2)) - MinOf(CityHoursUbiq(u, c1))
        a2 == MaxOf(CityHoursUbiq(u, c1)) - MinOf(CityHoursUbiq(u, c2))
    IN Max2(Abs(a1), Abs(a2))

UserCitiesUbiq(u) ==
    { events[i].city : i \in { k \in 1..Len(events) :
                                  events[k].user_id = u /\ events[k].city # "" } }

SpeedUbiq == ContextGet(context, "ubiquitous_max_travel_speed_kmh", 500)

FarPairUbiq(c1, c2) ==
    /\ c1 # c2
    /\ get_distance(c1, c2) # UnknownKm
    /\ get_distance(c1, c2) >= ContextGet(context, "ubiquitous_min_distance_km", 500)

\* C4: a city pair with known distance d >= ubiquitous_min_distance_km is
\* feasible (absent from distant_city_pairs) exactly when the available time
\* a satisfies a >= d / max_travel_speed_kmh.
C4_FeasibleExactlyAtThreshold ==
    pc \in {"done", "rerun"} =>
        \A u \in DOMAIN locals : \A c1, c2 \in UserCitiesUbiq(u) :
            FarPairUbiq(c1, c2) =>
                ({c1, c2} \notin PairSetUbiq(locals, u)
                    <=> AvailableUbiq(u, c1, c2) * SpeedUbiq >= get_distance(c1, c2))

\* C4 witness: one pair exactly at the boundary and feasible, another pair
\* one hour below its boundary and counted as impossible.
C4_Witness ==
    /\ pc = "done"
    /\ \E u \in DOMAIN locals : \E c1, c2, c3, c4 \in UserCitiesUbiq(u) :
          /\ FarPairUbiq(c1, c2) /\ FarPairUbiq(c3, c4)
          /\ AvailableUbiq(u, c1, c2) * SpeedUbiq = get_distance(c1, c2)
          /\ {c1, c2} \notin PairSetUbiq(locals, u)
          /\ (AvailableUbiq(u, c3, c4) + 1) * SpeedUbiq = get_distance(c3, c4)
          /\ {c3, c4} \in PairSetUbiq(locals, u)

\* C5: detect terminates normally, with False or a list of findings, for
\* every group, including groups with events that have no location.
C5_DetectNeverRaisesOnMissingLocation ==
    pc = "done" => result.status \in {"False", "findings"}

(***************************************************************************)
(* llm_rules/fd_taxi_sequential_rides.py                                   *)
(* Times of this rule count minutes; e.time_interval is read as the        *)
(* event's time window.                                                    *)
(***************************************************************************)
\* the default sequential_taxi_time_threshold, 0.5 hours, in minutes
SequentialTaxiThresholdMinutes == 30

SumAmount(seq) ==
    LET RECURSIVE Sum(_)
        Sum(k) == IF k = 0 THEN 0 ELSE seq[k].amount + Sum(k - 1)
    IN Sum(Len(seq))

\* the loop over sorted_events: <<sequences, current_sequence>> after event i
RECURSIVE TaxiSequences(_, _, _, _)
TaxiSequences(sorted_events, i, time_threshold, min_rides) ==
    IF i = 1 THEN <<<<>>, <<sorted_events[1]>>>>
    ELSE LET before == TaxiSequences(sorted_events, i - 1, time_threshold, min_rides)
             sequences == before[1]
             current_sequence == before[2]
             current_event == sorted_events[i]
             previous_event == sorted_events[i - 1]
             time_between == time_difference(previous_event.latest_end,
                                             current_event.earliest_start)
             location_match == is_within_distance(previous_event.to_location,
                                                  current_event.from_location, 2)
         IN IF 0 <= time_between /\ time_between <= time_threshold /\ location_match
            THEN <<sequences, Append(current_sequence, current_event)>>
            ELSE <<IF Len(current_sequence) >= min_rides
                   THEN Append(sequences, current_sequence) ELSE sequences,
                   <<current_event>>>>

\* the sequences found over the rides in the order of the input list
FlaggedTaxiSequencesUnsorted(user_taxi_events, ctx) ==
    LET time_threshold == ContextGet(ctx, "sequential_taxi_time_threshold",
                                     SequentialTaxiThresholdMinutes)
        amount_threshold == ContextGet(ctx, "sequential_taxi_amount_threshold", 150)
        min_rides == ContextGet(ctx, "sequential_taxi_min_rides", 3)
        last == TaxiSequences(user_taxi_events, Len(user_taxi_events),
                              time_threshold, min_rides)
        sequences == IF Len(last[2]) >= min_rides THEN Append(last[1], last[2]) ELSE last[1]
    IN IF Len(user_taxi_events) < min_rides THEN <<>>
       ELSE SelectSeq(sequences, LAMBDA q : SumAmount(q) >= amount_threshold)

\* the sequences of one user that reach the amount threshold
FlaggedTaxiSequences(user_taxi_events, ctx) ==
    LET time_threshold == ContextGet(ctx, "sequential_taxi_time_threshold",
                                     SequentialTaxiThresholdMinutes)
        amount_threshold == ContextGet(ctx, "sequential_taxi_amount_threshold", 150)
        min_rides == ContextGet(ctx, "sequential_taxi_min_rides", 3)
        sorted_events == SortByStart(user_taxi_events)
        last == TaxiSequences(sorted_events, Len(sorted_events), time_threshold, min_rides)
        sequences == IF Len(last[2]) >= min_rides THEN Append(last[1], last[2]) ELSE last[1]
    IN IF Len(user_taxi_events) < min_rides THEN <<>>
       ELSE SelectSeq(sequences, LAMBDA q : SumAmount(q) >= amount_threshold)

\* total_distance += distance, with distance = None, is a TypeError
RaisesTaxi(sequence) ==
    \E i \in 1..Len(sequence) :
        get_distance(sequence[i].from_location, sequence[i].to_location) = UnknownKm

SumDistance(seq) ==
    LET RECURSIVE Sum(_)
        Sum(k) == IF k = 0 THEN 0
                  ELSE get_distance(seq[k].from_location, seq[k].to_location) + Sum(k - 1)
    IN Sum(Len(seq))

detect_sequential_taxi_rides(evs, ctx) ==
    LET taxi_events == SelectSeq(evs, LAMBDA e : e.kind = "TaxiEvent")
        users == KeysInOrder([i \in 1..Len(taxi_events) |-> taxi_events[i].user_id])
        Flagged(user_id) ==
            FlaggedTaxiSequences(SelectSeq(taxi_events, LAMBDA e : e.user_id = user_id), ctx)
        ForUser(user_id) ==
            [k \in 1..Len(Flagged(user_id)) |->
                LET sequence == Flagged(user_id)[k]
                IN [primary_event_id |-> sequence[Len(sequence)].event_id,
                    related_event_ids |-> [j \in 1..Len(sequence) |-> sequence[j].event_id],
                    user_id |-> user_id,
                    total_amount |-> SumAmount(sequence),
                    ride_count |-> Len(sequence),
                    total_distance |-> SumDistance(sequence)]]
    IN IF Len(taxi_events) < 3 THEN Returned(<<>>)
       ELSE IF \E u \in 1..Len(users) : \E k \in 1..Len(Flagged(users[u])) :
                  RaisesTaxi(Flagged(users[u])[k])
       THEN Raised
       ELSE Returned(Concat([u \in 1..Len(users) |-> ForUser(users[u])]))

UsersTaxi == {"u1", "u2"}

StartsTaxi == {0, 20, 40}

RoutesTaxi == {<<"E", "A">>, <<"A", "B">>, <<"B", "D">>}

AmountsTaxi == {40, 60}

RideMinutes == 10

ContextsTaxi ==
    {<<>>, [sequential_taxi_min_rides |-> 2],
     [sequential_taxi_min_rides |-> 2, sequential_taxi_amount_threshold |-> 100]}

\* <<user, earliest_start, <<from, to>>, amount>>: every ride of u1 at the
\* higher amount, the first ride at the lower amount too, and a chain of u2
ShapesTaxi ==
    ({"u1"} \X StartsTaxi \X RoutesTaxi \X {60})
    \cup { <<"u1", 0, <<"E", "A">>, a>> : a \in AmountsTaxi }
    \cup { <<"u2", 0, <<"E", "A">>, 60>>, <<"u2", 20, <<"A", "B">>, 60>>,
           <<"u2", 40, <<"B", "D">>, 60>> }

GroupsTaxi(n) ==
    { [i \in 1..n |-> [event_id |-> i, kind |-> "TaxiEvent", user_id |-> f[i][1],
                       earliest_start |-> f[i][2], latest_end |-> f[i][2] + RideMinutes,
                       from_location |-> f[i][3][1], to_location |-> f[i][3][2],
                       amount |-> f[i][4]]] :
        f \in [1..n -> ShapesTaxi] }

InitTaxi ==
    /\ rule_id = "FD-TAXI-SEQUENTIAL-RIDES"
    /\ \E n \in 1..MaxGroupTaxi : events \in GroupsTaxi(n)
    /\ context \in ContextsTaxi
    /\ result = NotRun
    /\ locals = <<>>
    /\ pc = "ready"

DetectSequentialTaxiRides ==
    /\ rule_id = "FD-TAXI-SEQUENTIAL-RIDES"
    /\ pc = "ready"
    /\ result' = detect_sequential_taxi_rides(events, context)
    /\ pc' = "done"
    /\ UNCHANGED <<rule_id, events, context, locals>>

NextTaxi == DetectSequentialTaxiRides

SpecTaxi == InitTaxi /\ [][NextTaxi]_vars

\* rides i and i + 1 of the sorted rides are in sequence by time and location
RidesLinked(sorted_events, i, ctx) ==
    LET time_between == time_difference(sorted_events[i].latest_end,
                                        sorted_events[i + 1].earliest_start)
    IN /\ 0 <= time_between
       /\ time_between <= ContextGet(ctx, "sequential_taxi_time_threshold",
                                     SequentialTaxiThresholdMinutes)
       /\ is_within_distance(sorted_events[i].to_location,
                             sorted_events[i + 1].from_location, 2)

\* rides a..b of the sorted rides are a run no neighbouring ride extends
MaximalRun(sorted_events, a, b, ctx) ==
    /\ \A i \in a..(b - 1) : RidesLinked(sorted_events, i, ctx)
    /\ a > 1 => ~RidesLinked(sorted_events, a - 1, ctx)
    /\ b < Len(sorted_events) => ~RidesLinked(sorted_events, b, ctx)

\* C24: for every configured sequential_taxi_min_rides >= 2, a user's run of
\* exactly min_rides consecutive rides that meets the gap, location and
\* total-amount conditions is reported, also when min_rides is 2 and the
\* group holds only two taxi events.
C24_ConfiguredMinRidesHonoured ==
    pc = "done" =>
        \A u \in UsersTaxi :
            LET sorted_events == SortByStart(SelectSeq(events, LAMBDA e :
                                     e.kind = "TaxiEvent" /\ e.user_id = u))
                min_rides == ContextGet(context, "sequential_taxi_min_rides", 3)
                amount_threshold == ContextGet(context, "sequential_taxi_amount_threshold", 150)
            IN \A a \in 1..Len(sorted_events) :
                  LET b == a + min_rides - 1
                      run == SubSeq(sorted_events, a, b)
                  IN (/\ b <= Len(sorted_events)
                      /\ MaximalRun(sorted_events, a, b, context)
                      /\ SumAmount(run) >= amount_threshold)
                     => \E f \in 1..Len(result.findings) :
                           /\ result.findings[f].user_id = u
                           /\ result.findings[f].related_event_ids
                                  = [k \in 1..Len(run) |-> run[k].event_id]

\* C25: every reported sequence is a maximal run of its user's rides sorted
\* by earliest_start: contiguous in that order, every adjacent pair with
\* 0 <= gap <= time_threshold and matching locations, at least min_rides
\* rides, total amount >= amount_threshold, extended neither by the ride
\* before it nor by the ride after it; two reported sequences of one user
\* share no ride.
C25_ReportedSequencesAreMaximalRuns ==
    (pc = "done" /\ result.status = "findings") =>
        /\ \A f \in 1..Len(result.findings) :
              LET finding == result.findings[f]
                  sorted_events == SortByStart(SelectSeq(events, LAMBDA e :
                                       e.kind = "TaxiEvent" /\ e.user_id = finding.user_id))
                  ids == finding.related_event_ids
              IN \E a \in 1..Len(sorted_events) :
                    LET b == a + Len(ids) - 1
                    IN /\ b <= Len(sorted_events)
                       /\ ids = [k \in 1..Len(ids) |-> sorted_events[a + k - 1].event_id]
                       /\ MaximalRun(sorted_events, a, b, context)
                       /\ Len(ids) >= ContextGet(context, "sequential_taxi_min_rides", 3)
                       /\ SumAmount(SubSeq(sorted_events, a, b))
                              >= ContextGet(context, "sequential_taxi_amount_threshold", 150)
        /\ \A f, g \in 1..Len(result.findings) :
              (f # g /\ result.findings[f].user_id = result.findings[g].user_id)
                  => {result.findings[f].related_event_ids[k] :
                          k \in 1..Len(result.findings[f].related_event_ids)}
                       \cap {result.findings[g].related_event_ids[k] :
                          k \in 1..Len(result.findings[g].related_event_ids)} = {}

\* C25 witness: two sequences are reported for one user, whose rides were
\* not listed in the order of their start times.
C25_Witness ==
    /\ pc = "done"
    /\ result.status = "findings"
    /\ \E f, g \in 1..Len(result.findings) :
          /\ f # g
          /\ result.findings[f].user_id = result.findings[g].user_id
          /\ LET rides == SelectSeq(events, LAMBDA e :
                              e.kind = "TaxiEvent"
                              /\ e.user_id = result.findings[f].user_id)
             IN SortByStart(rides) # rides

\* C6: detect_sequential_taxi_rides terminates normally for every group, also
\* when the distance service answers unknown for a ride of a qualifying run.
C6_UnknownDistanceNeverAborts ==
    pc = "done" => result.status \in {"False", "findings"}

(***************************************************************************)
(* llm_rules/fd_impossible_sequence.py                                     *)
(***************************************************************************)
GroundSpeedKmh == 100

\* the fields a time window has
TimeWindowFields == {"earliest_start", "latest_end", "exact_start_time", "exact_end_time"}

\* the loop over transport_events for one pair of consecutive events:
\* "explained", "unexplained", or "raise" when a missing field is read
TransportExplanation(transport_events, event1, event2) ==
    LET RECURSIVE Scan(_)
        Scan(k) ==
            IF k > Len(transport_events) THEN "unexplained"
            ELSE IF transport_events[k].earliest_start >= event1.earliest_start
                 THEN IF "latest_start" \in TimeWindowFields
                      THEN IF /\ transport_events[k].latest_end <= event2.latest_end
                              /\ is_same_city(transport_events[k].from_location, event1.city)
                              /\ is_same_city(transport_events[k].to_location, event2.city)
                           THEN "explained" ELSE Scan(k + 1)
                      ELSE "raise"
                 ELSE Scan(k + 1)
    IN Scan(1)

\* the consecutive pairs of one user that are too close in time
ShortGapPairs(sorted_events) ==
    SelectSeq([i \in 1..(Len(sorted_events) - 1) |-> <<sorted_events[i], sorted_events[i + 1]>>],
              LAMBDA p :
                  /\ ~is_same_city(p[1].city, p[2].city)
                  /\ (p[2].earliest_start - p[1].latest_end) * GroundSpeedKmh
                         < travel_time_x_speed(p[1].city, p[2].city))

detect_impossible_travel(evs) ==
    LET users == KeysInOrder([i \in 1..Len(evs) |-> evs[i].user_id])
        Sorted(user_id) == SortByStart(SelectSeq(evs, LAMBDA e : e.user_id = user_id))
        Transports(user_id) == SelectSeq(Sorted(user_id), LAMBDA e : e.transport)
        Pairs(user_id) ==
            IF Len(Sorted(user_id)) < 2 THEN <<>> ELSE ShortGapPairs(Sorted(user_id))
        Verdict(user_id, p) == TransportExplanation(Transports(user_id), p[1], p[2])
        ForUser(user_id) ==
            LET unexplained == SelectSeq(Pairs(user_id),
                                   LAMBDA p : Verdict(user_id, p) = "unexplained")
            IN [k \in 1..Len(unexplained) |->
                   [primary_event_id |-> unexplained[k][2].event_id,
                    user_id |-> user_id,
                    first_event_id |-> unexplained[k][1].event_id,
                    second_event_id |-> unexplained[k][2].event_id,
                    distance_km |-> get_distance(unexplained[k][1].city,
                                                 unexplained[k][2].city)]]
    IN IF Len(evs) < 2 THEN Returned(<<>>)
       ELSE IF \E u \in 1..Len(users) : \E k \in 1..Len(Pairs(users[u])) :
                  Verdict(users[u], Pairs(users[u])[k]) = "raise"
       THEN Raised
       ELSE Returned(Concat([u \in 1..Len(users) |-> ForUser(users[u])]))

UsersSeq == {"u1", "u2"}

\* <<is a TransportEvent, location city, from city, to city>>
ShapesSeq == {<<FALSE, "A", None, None>>, <<FALSE, "B", None, None>>,
              <<FALSE, "C", None, None>>, <<TRUE, "A", "A", "B">>,
              <<TRUE, "B", "B", "A">>}

StartsSeq == {0, 1, 3}

GroupsSeq(n) ==
    { [i \in 1..n |-> [event_id |-> i, user_id |-> f[i][1], transport |-> f[i][2][1],
                       city |-> f[i][2][2], from_location |-> f[i][2][3],
                       to_location |-> f[i][2][4],
                       earliest_start |-> f[i][3], latest_end |-> f[i][3] + 1]] :
        f \in [1..n -> UsersSeq \X ShapesSeq \X StartsSeq] }

InitSeq ==
    /\ rule_id = "FD-TRAVEL-IMPOSSIBLE-SEQUENCE"
    /\ \E n \in 1..MaxGroupSeq : events \in GroupsSeq(n)
    /\ context = <<>>
    /\ result = NotRun
    /\ locals = <<>>
    /\ pc = "ready"

DetectImpossibleTravel ==
    /\ rule_id = "FD-TRAVEL-IMPOSSIBLE-SEQUENCE"
    /\ pc = "ready"
    /\ result' = detect_impossible_travel(events)
    /\ pc' = "done"
    /\ UNCHANGED <<rule_id, events, context, locals>>

NextSeq == DetectImpossibleTravel

SpecSeq == InitSeq /\ [][NextSeq]_vars

\* a transport event of the user from event1's city to event2's city lying
\* inside the span of the two events
HasConnectingTransport(event1, event2) ==
    \E i \in 1..Len(events) :
        /\ events[i].user_id = event1.user_id
        /\ events[i].transport
        /\ events[i].from_location = event1.city
        /\ events[i].to_location = event2.city
        /\ events[i].earliest_start >= event1.earliest_start
        /\ events[i].latest_end <= event2.latest_end

\* C7: for consecutive events in different cities with a gap below the
\* minimum travel time, no finding is produced when a connecting transport
\* lies inside their span and a finding is produced otherwise, and the check
\* completes without error.
C7_ExplanationCheckCompletes ==
    pc = "done" =>
        /\ result.status # "raise"
        /\ \A u \in UsersSeq :
              LET sorted_events == SortByStart(SelectSeq(events, LAMBDA e : e.user_id = u))
                  pairs == IF Len(sorted_events) < 2 THEN <<>>
                           ELSE ShortGapPairs(sorted_events)
              IN \A k \in 1..Len(pairs) :
                    HasConnectingTransport(pairs[k][1], pairs[k][2])
                    <=> ~\E i \in 1..Len(result.findings) :
                            /\ result.findings[i].first_event_id = pairs[k][1].event_id
                            /\ result.findings[i].second_event_id = pairs[k][2].event_id

(***************************************************************************)
(* llm_rules/fd_taxi_multicity_no_intercity_transport.py                   *)
(***************************************************************************)
\* find_valid_transport's "return None", as an id no event has
NoEvent == 0

\* the match any direction of travel satisfies, with touching windows
find_valid_transport_either_way(from_city, to_city, from_time, to_time, transport_events) ==
    LET RECURSIVE Scan(_)
        Scan(k) ==
            IF k > Len(transport_events) THEN NoEvent
            ELSE IF /\ {transport_events[k].from_location, transport_events[k].to_location}
                          = {from_city, to_city}
                    /\ transport_events[k].earliest_start <= to_time
                    /\ transport_events[k].latest_end >= from_time
                 THEN transport_events[k].event_id
                 ELSE Scan(k + 1)
    IN Scan(1)

\* the event_id of the transport event returned, or None
find_valid_transport(from_city, to_city, from_time, to_time, transport_events) ==
    LET RECURSIVE Scan(_)
        Scan(k) ==
            IF k > Len(transport_events) THEN NoEvent
            ELSE IF ~(/\ transport_events[k].from_location = from_city
                      /\ transport_events[k].to_location = to_city)
                 THEN Scan(k + 1)
                 ELSE IF /\ transport_events[k].earliest_start < to_time
                         /\ transport_events[k].latest_end > from_time
                      THEN transport_events[k].event_id
                      ELSE Scan(k + 1)
    IN Scan(1)

\* the chronological sequence of city transitions of the taxi rides
CityTransitions(sorted_all_taxis) ==
    LET Changes == SelectSeq([i \in 1..(Len(sorted_all_taxis) - 1) |-> i + 1],
                       LAMBDA i : sorted_all_taxis[i].from_location
                                     # sorted_all_taxis[i - 1].from_location)
    IN [k \in 1..Len(Changes) |->
           LET i == Changes[k]
           IN [from_city |-> sorted_all_taxis[i - 1].from_location,
               to_city |-> sorted_all_taxis[i].from_location,
               from_time |-> sorted_all_taxis[i - 1].latest_end,
               to_time |-> sorted_all_taxis[i].earliest_start,
               from_event_id |-> sorted_all_taxis[i - 1].event_id,
               to_event_id |-> sorted_all_taxis[i].event_id]]

\* every transition with the transport find_valid_transport returned for it
TransitionSearches(evs) ==
    LET taxi_events == SelectSeq(evs, LAMBDA e : e.kind = "TaxiEvent")
        intercity_events == SelectSeq(evs, LAMBDA e : e.kind \in {"FlightEvent", "RailwayEvent"})
        city_transitions == CityTransitions(SortByStart(taxi_events))
    IN IF Len(taxi_events) < 2 THEN <<>>
       ELSE [k \in 1..Len(city_transitions) |->
               [transition |-> city_transitions[k],
                transport_events |-> intercity_events,
                valid_transport |->
                    find_valid_transport(city_transitions[k].from_city,
                                         city_transitions[k].to_city,
                                         city_transitions[k].from_time,
                                         city_transitions[k].to_time,
                                         intercity_events)]]

detect_taxi_multicity_no_intercity_transport(evs) ==
    LET taxi_events == SelectSeq(evs, LAMBDA e : e.kind = "TaxiEvent")
        sorted_all_taxis == SortByStart(taxi_events)
        searches == TransitionSearches(evs)
        unexplained == SelectSeq(searches, LAMBDA r : r.valid_transport = NoEvent)
        suspicious_transitions == [k \in 1..Len(unexplained) |-> unexplained[k].transition]
    IN IF Len(taxi_events) < 2 \/ suspicious_transitions = <<>> THEN Returned(<<>>)
       ELSE Returned(<<[primary_event_id |-> sorted_all_taxis[Len(sorted_all_taxis)].event_id,
                        user_id |-> sorted_all_taxis[1].user_id,
                        suspicious_transitions |-> suspicious_transitions,
                        taxi_events_count |-> Len(taxi_events)]>>)

\* <<class, from city, to city>> of the taxi rides and of the transports
TaxiShapesMulticity == {<<"TaxiEvent", "A", "A">>, <<"TaxiEvent", "B", "B">>}

TransportShapesMulticity == {<<"FlightEvent", "A", "B">>, <<"RailwayEvent", "B", "A">>}

\* <<earliest_start, latest_end>>: a transport touches the gap between two
\* rides at either end or spans it
TaxiWindowsMulticity == {<<0, 0>>, <<0, 1>>, <<1, 1>>}

TransportWindowsMulticity == {<<0, 0>>, <<0, 1>>, <<1, 1>>}

ShapesMulticity == (TaxiShapesMulticity \X TaxiWindowsMulticity)
                       \cup (TransportShapesMulticity \X TransportWindowsMulticity)

GroupsMulticity(n) ==
    { [i \in 1..n |-> [event_id |-> i, user_id |-> "u1", kind |-> f[i][1][1],
                       from_location |-> f[i][1][2], to_location |-> f[i][1][3],
                       earliest_start |-> f[i][2][1], latest_end |-> f[i][2][2]]] :
        f \in [1..n -> ShapesMulticity] }

UsersMulticity == {"u1", "u2"}

\* groups with events of more than one user
GroupsUsersMulticity(n) ==
    { [i \in 1..n |-> [event_id |-> i, user_id |-> f[i][1], kind |-> f[i][2][1][1],
                       from_location |-> f[i][2][1][2], to_location |-> f[i][2][1][3],
                       earliest_start |-> f[i][2][2][1], latest_end |-> f[i][2][2][2]]] :
        f \in [1..n -> UsersMulticity \X ShapesMulticity] }

InitMulticity ==
    /\ rule_id = "FD-TAXI-MULTICITY-NO-INTERCITY-TRANSPORT"
    /\ \/ \E n \in 1..MaxGroupMulticity : events \in GroupsMulticity(n)
       \/ \E n \in 1..MaxUsersGroupMulticity : events \in GroupsUsersMulticity(n)
    /\ context = <<>>
    /\ result = NotRun
    /\ locals = <<>>
    /\ pc = "ready"

DetectTaxiMulticity ==
    /\ rule_id = "FD-TAXI-MULTICITY-NO-INTERCITY-TRANSPORT"
    /\ pc = "ready"
    /\ result' = detect_taxi_multicity_no_intercity_transport(events)
    /\ locals' = TransitionSearches(events)
    /\ pc' = "done"
    /\ UNCHANGED <<rule_id, events, context>>

NextMulticity == DetectTaxiMulticity

SpecMulticity == InitMulticity /\ [][NextMulticity]_vars

DirectedMatches(list, t) ==
    { i \in 1..Len(list) :
        /\ list[i].from_location = t.from_city
        /\ list[i].to_location = t.to_city
        /\ list[i].earliest_start < t.to_time
        /\ list[i].latest_end > t.from_time }

UserOfEvent(id) ==
    events[CHOOSE i \in 1..Len(events) : events[i].event_id = id].user_id

\* C13: all events a finding references (primary, the two ends of each
\* reported city transition) belong to the user named in the finding, and
\* events of another user never create or suppress a finding: the findings
\* naming a user are those detect returns for that user's events alone.
C13_FindingConcernsOneUsersEvents ==
    pc = "done" =>
        /\ \A i \in 1..Len(result.findings) :
              LET finding == result.findings[i]
              IN /\ UserOfEvent(finding.primary_event_id) = finding.user_id
                 /\ \A k \in 1..Len(finding.suspicious_transitions) :
                       /\ UserOfEvent(finding.suspicious_transitions[k].from_event_id)
                              = finding.user_id
                       /\ UserOfEvent(finding.suspicious_transitions[k].to_event_id)
                              = finding.user_id
        /\ \A u \in UsersMulticity :
              SelectSeq(result.findings, LAMBDA f : f.user_id = u)
                  = detect_taxi_multicity_no_intercity_transport(
                        SelectSeq(events, LAMBDA e : e.user_id = u)).findings

(***************************************************************************)
(* llm_rules/fd_transport_reverse_time.py                                  *)
(* Times of this rule count minutes.                                       *)
(***************************************************************************)
\* time_diff_minutes < 0, with equal times flagged as well
end_before_start_or_equal(time_diff_minutes) == time_diff_minutes <= 0

\* time_diff_minutes < 0
end_before_start(time_diff_minutes) == time_diff_minutes < 0

detect_transport_reverse_time(evs) ==
    IF Len(evs) # 1 THEN Returned(<<>>)
    ELSE LET event == evs[1]
             start_time == event.exact_start_time
             end_time == event.exact_end_time
             time_diff_minutes == time_difference(start_time, end_time)
         IN IF ~event.transport THEN Returned(<<>>)
            ELSE IF start_time = NoTime \/ end_time = NoTime THEN Returned(<<>>)
            ELSE IF end_before_start(time_diff_minutes)
            THEN Returned(<<[primary_event_id |-> event.event_id,
                             start_time |-> start_time,
                             end_time |-> end_time,
                             time_diff_minutes |-> time_diff_minutes,
                             amount |-> event.amount]>>)
            ELSE Returned(<<>>)

ExactTimesReverse == {NoTime, 0, 1, 2}

\* <<earliest_start, latest_end>>, the second with the end before the start
BoundsReverse == {<<0, 2>>, <<2, 0>>}

GroupsReverse(n) ==
    { [i \in 1..n |-> [event_id |-> i, user_id |-> "u1", transport |-> f[i][1],
                       earliest_start |-> f[i][2][1], latest_end |-> f[i][2][2],
                       exact_start_time |-> f[i][3], exact_end_time |-> f[i][4],
                       amount |-> 100]] :
        f \in [1..n -> BOOLEAN \X BoundsReverse \X ExactTimesReverse \X ExactTimesReverse] }

InitReverse ==
    /\ rule_id = "FD-TRANSPORT-REVERSE-TIME"
    /\ \E n \in 0..MaxGroupReverse : events \in GroupsReverse(n)
    /\ context = <<>>
    /\ result = NotRun
    /\ locals = <<>>
    /\ pc = "ready"

DetectTransportReverseTime ==
    /\ rule_id = "FD-TRANSPORT-REVERSE-TIME"
    /\ pc = "ready"
    /\ result' = detect_transport_reverse_time(events)
    /\ pc' = "done"
    /\ UNCHANGED <<rule_id, events, context, locals>>

NextReverse == DetectTransportReverseTime

SpecReverse == InitReverse /\ [][NextReverse]_vars

\* C9: for a single transport event with both exact times present a finding
\* is returned iff exact_end_time < exact_start_time; it names that event and
\* has a negative time_diff_minutes.  With an exact time absent the result is
\* False, also when latest_end is earlier than earliest_start.
C9_FlaggedIffExactEndBeforeExactStart ==
    (pc = "done" /\ Len(events) = 1 /\ events[1].transport) =>
        LET e == events[1]
        IN IF e.exact_start_time = NoTime \/ e.exact_end_time = NoTime
           THEN result.status = "False"
           ELSE /\ result.status = "findings" <=> e.exact_end_time < e.exact_start_time
                /\ result.status = "findings" =>
                      /\ Len(result.findings) = 1
                      /\ result.findings[1].primary_event_id = e.event_id
                      /\ result.findings[1].time_diff_minutes < 0

\* C9 witness: a transport event whose exact end precedes its exact start.
C9_Witness ==
    /\ pc = "done"
    /\ Len(events) = 1
    /\ events[1].transport
    /\ events[1].exact_start_time = 2
    /\ events[1].exact_end_time = 1
    /\ result.status = "findings"

\* C12: every finding record a detect function returns contains both a
\* primary_event_id field and a user_id field.
C12_FindingsCarryPrimaryEventAndUser ==
    (pc = "done" /\ result.status = "findings") =>
        \A i \in 1..Len(result.findings) :
            {"primary_event_id", "user_id"} \subseteq DOMAIN result.findings[i]

(***************************************************************************)
(* llm-rules-partial-functions/rules/                                      *)
(*     fd_multi_transport_same_route_time_nofunc.py                        *)
(* Times of this rule count minutes.                                       *)
(***************************************************************************)
TaxiTransferMinutes == 90

\* time_window.exact_start_time or time_window.earliest_start
EffectiveStart(e) ==
    IF e.exact_start_time # NoTime THEN e.exact_start_time ELSE e.earliest_start

\* time_window.exact_end_time or time_window.latest_end
EffectiveEnd(e) ==
    IF e.exact_end_time # NoTime THEN e.exact_end_time ELSE e.latest_end

\* transport_routes of one user
TransportRoutes(user_events) ==
    LET transport_events == SelectSeq(user_events,
            LAMBDA e : e.kind \in {"TaxiEvent", "FlightEvent", "RailwayEvent"})
        usable == SelectSeq(transport_events,
            LAMBDA e : e.from_location # None /\ e.to_location # None)
    IN IF Len(transport_events) < 2 THEN <<>>
       ELSE [k \in 1..Len(usable) |->
               [event_id |-> usable[k].event_id,
                from_city |-> usable[k].from_location,
                to_city |-> usable[k].to_location,
                start_time |-> EffectiveStart(usable[k]),
                end_time |-> EffectiveEnd(usable[k]),
                transport_type |-> usable[k].kind]]

routes_match(route1, route2) ==
    \/ (route1.from_city = route2.from_city /\ route1.to_city = route2.to_city)
    \/ (route1.from_city = route2.to_city /\ route1.to_city = route2.from_city)

times_overlap(route1, route2) ==
    /\ route1.start_time <= route2.end_time
    /\ route2.start_time <= route1.end_time

\* the "continue" of the taxi transfer allowance
taxi_transfer(route1, route2) ==
    LET gap == route2.start_time - route1.end_time
    IN /\ "TaxiEvent" \in {route1.transport_type, route2.transport_type}
       /\ route1.transport_type # route2.transport_type
       /\ 0 <= gap /\ gap <= TaxiTransferMinutes

\* the pairs of routes of one user that reach the overlap test
RoutePairs(user_events) ==
    LET transport_routes == TransportRoutes(user_events)
        pairs == IndexPairs(Len(transport_routes))
        matching == SelectSeq(pairs, LAMBDA p :
                        routes_match(transport_routes[p[1]], transport_routes[p[2]]))
    IN [k \in 1..Len(matching) |->
           [route1 |-> transport_routes[matching[k][1]],
            route2 |-> transport_routes[matching[k][2]],
            times_overlap |-> times_overlap(transport_routes[matching[k][1]],
                                            transport_routes[matching[k][2]])]]

detect_multi_transport_same_route_time(evs) ==
    LET users == KeysInOrder([i \in 1..Len(evs) |-> evs[i].user_id])
        ForUser(user_id) ==
            LET checked == RoutePairs(SelectSeq(evs, LAMBDA e : e.user_id = user_id))
                conflicts == SelectSeq(checked, LAMBDA c :
                                 ~taxi_transfer(c.route1, c.route2) /\ c.times_overlap)
            IN [k \in 1..Len(conflicts) |->
                   LET route1 == conflicts[k].route1
                       route2 == conflicts[k].route2
                       overlap_start == Max2(route1.start_time, route2.start_time)
                       overlap_end == Min2(route1.end_time, route2.end_time)
                   IN [primary_event_id |-> route1.event_id,
                       secondary_event_id |-> route2.event_id,
                       user_id |-> user_id,
                       from_city |-> route1.from_city,
                       to_city |-> route1.to_city,
                       transport1_type |-> route1.transport_type,
                       transport2_type |-> route2.transport_type,
                       overlap_minutes |-> overlap_end - overlap_start]]
    IN Returned(Concat([u \in 1..Len(users) |-> ForUser(users[u])]))

UsersRoute == {"u1", "u2"}

KindsRoute == {"TaxiEvent", "FlightEvent", "RailwayEvent"}

\* <<from city, to city>>, the last without a departure location
EndpointsRoute == {<<"A", "B">>, <<"B", "A">>, <<None, "B">>}

\* <<earliest_start, latest_end>>
BoundsRoute == {<<0, 60>>, <<60, 200>>}

ExactStartsRoute == {NoTime, 100}

ExactEndsRoute == {NoTime, 30}

GroupsRoute(n) ==
    { [i \in 1..n |-> [event_id |-> i, user_id |-> f[i][1], kind |-> f[i][2],
                       from_location |-> f[i][3][1], to_location |-> f[i][3][2],
                       earliest_start |-> f[i][4][1], latest_end |-> f[i][4][2],
                       exact_start_time |-> f[i][5], exact_end_time |-> f[i][6]]] :
        f \in [1..n -> UsersRoute \X KindsRoute \X EndpointsRoute \X BoundsRoute
                          \X ExactStartsRoute \X ExactEndsRoute] }

InitRoute ==
    /\ rule_id = "FD-MULTI-TRANSPORT-SAME-ROUTE-TIME"
    /\ \E n \in 0..MaxGroupRoute : events \in GroupsRoute(n)
    /\ context = <<>>
    /\ result = NotRun
    /\ locals = <<>>
    /\ pc = "ready"

DetectMultiTransportSameRouteTime ==
    /\ rule_id = "FD-MULTI-TRANSPORT-SAME-ROUTE-TIME"
    /\ pc = "ready"
    /\ result' = detect_multi_transport_same_route_time(events)
    /\ locals' = [u \in UsersRoute |-> RoutePairs(SelectSeq(events, LAMBDA e : e.user_id = u))]
    /\ pc' = "done"
    /\ UNCHANGED <<rule_id, events, context>>

NextRoute == DetectMultiTransportSameRouteTime

SpecRoute == InitRoute /\ [][NextRoute]_vars

\* C10: the overlap test on effective intervals is symmetric in its two
\* arguments and true exactly when max(start1, start2) <= min(end1, end2),
\* also for intervals whose end precedes their start.
C10_OverlapIsSymmetricMaxMin ==
    pc = "done" =>
        \A u \in DOMAIN locals : \A k \in 1..Len(locals[u]) :
            LET c == locals[u][k]
            IN /\ c.times_overlap = times_overlap(c.route2, c.route1)
               /\ c.times_overlap
                    <=> Max2(c.route1.start_time, c.route2.start_time)
                            <= Min2(c.route1.end_time, c.route2.end_time)

\* C11: every finding carries overlap_minutes >= 0, also for groups with
\* events whose effective end time is earlier than their effective start.
C11_OverlapMinutesNonNegative ==
    (pc = "done" /\ result.status = "findings") =>
        \A i \in 1..Len(result.findings) : result.findings[i].overlap_minutes >= 0

\* the unordered pairs of events the findings of a run report
ReportedPairs(r) ==
    { {r.findings[f].primary_event_id, r.findings[f].secondary_event_id} :
        f \in 1..Len(r.findings) }

\* the orders in which a group of n events can be listed
Orderings(n) == { o \in [1..n -> 1..n] : \A i, j \in 1..n : i # j => o[i] # o[j] }

\* C23: listing the events of the group in another order yields the same set
\* of reported unordered event pairs, also for a taxi whose interval touches
\* the start or the end of a flight or train on the same route.
C23_VerdictIndependentOfInputOrder ==
    pc = "done" =>
        \A o \in Orderings(Len(events)) :
            ReportedPairs(detect_multi_transport_same_route_time(
                              [i \in 1..Len(events) |-> events[o[i]]]))
                = ReportedPairs(result)

\* C14: events are bucketed per day by their effective start (exact_start_time
\* when present, otherwise earliest_start): two events of one user are
\* compared as same-day exactly when their effective start dates are equal.
C14_SameDayByEffectiveStartDate ==
    (pc = "done" /\ rule_id = "FD-UBIQUITOUS-PRESENCE-NF") =>
        \A i, j \in 1..Len(events) :
            (i # j /\ events[i].user_id = events[j].user_id) =>
                ((\E b \in 1..Len(locals) :
                      {events[i].event_id, events[j].event_id} \subseteq locals[b].daily_events)
                 <=> DateOf(IF events[i].exact_start_time # NoTime
                            THEN events[i].exact_start_time ELSE events[i].earliest_start)
                       = DateOf(IF events[j].exact_start_time # NoTime
                                THEN events[j].exact_start_time ELSE events[j].earliest_start))

(***************************************************************************)
(* llm_rules/fd_hotel_stay_no_arrival.py                                   *)
(* Times of this rule count hours.                                         *)
(***************************************************************************)
\* timedelta(days=3), in hours
ArrivalSearchHours == 72

\* home_locations.get(user_id) and the city of the location found
CityOfUser(locations, user_id) ==
    IF user_id \in DOMAIN locations THEN locations[user_id] ELSE None

\* destination_city of a transport event
destination_city(transport) ==
    IF transport.kind \in {"FlightEvent", "RailwayEvent", "TaxiEvent"}
    THEN transport.to_location
    ELSE IF transport.kind = "FuelEvent" THEN transport.city
    ELSE None

\* has_arrival_transport for one hotel stay
has_arrival_transport(hotel_event, transport_events) ==
    LET search_start == hotel_event.earliest_start - ArrivalSearchHours
    IN \E k \in 1..Len(transport_events) :
          LET transport == transport_events[k]
          IN /\ transport.user_id = hotel_event.user_id
             /\ ~(transport.latest_end > hotel_event.earliest_start)
             /\ ~(transport.earliest_start < search_start)
             /\ destination_city(transport) # None
             /\ destination_city(transport) = hotel_event.city

detect_hotel_stay_no_arrival(evs, ctx) ==
    LET hotel_events == SelectSeq(evs, LAMBDA e : e.kind = "HotelEvent")
        transport_events == SelectSeq(evs, LAMBDA e :
            e.kind \in {"FlightEvent", "RailwayEvent", "TaxiEvent", "FuelEvent"})
        home_locations == ContextGet(ctx, "default_home_locations", <<>>)
        work_locations == ContextGet(ctx, "default_work_locations", <<>>)
        home_city(e) == CityOfUser(home_locations, e.user_id)
        work_city(e) == CityOfUser(work_locations, e.user_id)
        suspicious == SelectSeq(hotel_events, LAMBDA e :
            /\ e.city # None
            /\ ~((home_city(e) # None /\ e.city = home_city(e))
                    \/ (work_city(e) # None /\ e.city = work_city(e)))
            /\ ~has_arrival_transport(e, transport_events))
    IN Returned([k \in 1..Len(suspicious) |->
           [primary_event_id |-> suspicious[k].event_id,
            user_id |-> suspicious[k].user_id,
            hotel_city |-> suspicious[k].city,
            residential_city |->
                IF home_city(suspicious[k]) # None THEN home_city(suspicious[k])
                ELSE IF work_city(suspicious[k]) # None THEN work_city(suspicious[k])
                ELSE "Unknown"]])

UsersArrival == {"u1", "u2"}

\* <<class, location city, to_location city>>
ShapesArrival == {<<"HotelEvent", "A", None>>, <<"HotelEvent", None, None>>,
                  <<"FlightEvent", None, "A">>, <<"FlightEvent", None, "B">>,
                  <<"TaxiEvent", None, "A">>, <<"FuelEvent", "A", None>>}

\* <<earliest_start, latest_end>>: more than three days before hour 96, at
\* three days before, up to hour 96, and after it
WindowsArrival == {<<23, 24>>, <<24, 25>>, <<95, 96>>, <<96, 97>>}

ContextsArrival ==
    {<<>>,
     [default_home_locations |-> [u1 |-> "A"]],
     [default_work_locations |-> [u1 |-> "B"]],
     [default_home_locations |-> [u1 |-> "B"], default_work_locations |-> [u1 |-> "A"]]}

GroupsArrival(n) ==
    { [i \in 1..n |-> [event_id |-> i, user_id |-> f[i][1], kind |-> f[i][2][1],
                       city |-> f[i][2][2], to_location |-> f[i][2][3],
                       earliest_start |-> f[i][3][1], latest_end |-> f[i][3][2]]] :
        f \in [1..n -> UsersArrival \X ShapesArrival \X WindowsArrival] }

InitArrival ==
    /\ rule_id = "FD-HOTEL-STAY-NO-ARRIVAL"
    /\ \E n \in 0..MaxGroupArrival : events \in GroupsArrival(n)
    /\ context \in ContextsArrival
    /\ result = NotRun
    /\ locals = <<>>
    /\ pc = "ready"

DetectHotelStayNoArrival ==
    /\ rule_id = "FD-HOTEL-STAY-NO-ARRIVAL"
    /\ pc = "ready"
    /\ result' = detect_hotel_stay_no_arrival(events, context)
    /\ pc' = "done"
    /\ UNCHANGED <<rule_id, events, context, locals>>

NextArrival == DetectHotelStayNoArrival

SpecArrival == InitArrival /\ [][NextArrival]_vars

\* C15: no finding is produced for a hotel stay of a user whose home
\* location and work location are both absent from the context.
C15_NoFindingWithoutReferenceLocations ==
    pc = "done" =>
        \A i \in 1..Len(result.findings) :
            \/ CityOfUser(ContextGet(context, "default_home_locations", <<>>),
                          result.findings[i].user_id) # None
            \/ CityOfUser(ContextGet(context, "default_work_locations", <<>>),
                          result.findings[i].user_id) # None

(***************************************************************************)
(* List objects.  A detect call works on the caller's list `events` and on *)
(* lists it builds itself; list.sort reorders one list object in place.    *)
(* A list is named <<variable, user_id, date, city>>.                      *)
(***************************************************************************)
\* the list object the caller passes in as `events`
InputList == <<"events", "", 0, "">>

\* lst.sort(key=lambda e: e.time_window.earliest_start) on the list named
SortInPlace(lists, name) == [lists EXCEPT ![name] = SortByStart(@)]

RECURSIVE SortAllInPlace(_, _)
SortAllInPlace(lists, names) ==
    IF names = <<>> THEN lists
    ELSE SortAllInPlace(SortInPlace(lists, Head(names)), Tail(names))

(***************************************************************************)
(* llm_rules/fd_checkin_without_transportation.py                          *)
(* Times of this rule count hours.                                         *)
(***************************************************************************)
TransportKindsCheckinTransport == {"FlightEvent", "RailwayEvent", "TaxiEvent", "FuelEvent"}

\* events_by_user[user_id]["checkins"] and events_by_user[user_id]["transport"]
checkins_list(user_id) == <<"checkins", user_id, 0, "">>

transport_list(user_id) == <<"transport", user_id, 0, "">>

\* the sort applied to the caller's list instead
sorted_list_aliasing_events(user_id) == InputList

\* the list that `checkins.sort(key=...)` reorders
sorted_list(user_id) == checkins_list(user_id)

\* the lists after the grouping loop: the input and the lists built per user
events_by_user_lists(evs) ==
    LET users == { evs[i].user_id : i \in 1..Len(evs) }
    IN [name \in {InputList} \cup { checkins_list(u) : u \in users }
                            \cup { transport_list(u) : u \in users } |->
           IF name = InputList THEN evs
           ELSE IF name[1] = "checkins"
                THEN SelectSeq(evs, LAMBDA e : e.user_id = name[2]
                                                /\ e.kind = "DailyCheckInEvent")
                ELSE SelectSeq(evs, LAMBDA e : e.user_id = name[2]
                                  /\ e.kind \in TransportKindsCheckinTransport)]

\* one t_event of the loop over transport: does it set has_transportation
explains_city_change(t_event, previous_checkin, current_checkin) ==
    /\ ~(\/ t_event.latest_end < previous_checkin.earliest_start
          \/ t_event.earliest_start > current_checkin.earliest_start)
    /\ \/ /\ t_event.kind \in {"FlightEvent", "RailwayEvent"}
          /\ t_event.from_location # None /\ t_event.to_location # None
          /\ t_event.from_location = previous_checkin.city
          /\ t_event.to_location = current_checkin.city
       \/ /\ t_event.kind = "TaxiEvent"
          /\ t_event.city # None
          /\ t_event.city \in {previous_checkin.city, current_checkin.city}
          /\ t_event.is_transport_related
       \/ /\ t_event.kind = "FuelEvent"
          /\ t_event.city # None

\* the findings of one user, from the user's lists as the sort left them
suspicious_checkins(user_id, checkins, transport) ==
    LET Pair(i) ==
            LET current_checkin == checkins[i]
                previous_checkin == checkins[i - 1]
                days_between == DateOf(current_checkin.earliest_start)
                                    - DateOf(previous_checkin.earliest_start)
            IN IF \/ current_checkin.city = None \/ previous_checkin.city = None
                  \/ current_checkin.city = previous_checkin.city
                  \/ days_between > 3
                  \/ \E k \in 1..Len(transport) :
                         explains_city_change(transport[k], previous_checkin, current_checkin)
               THEN <<>>
               ELSE <<[primary_event_id |-> current_checkin.event_id,
                       user_id |-> user_id,
                       previous_checkin_id |-> previous_checkin.event_id,
                       previous_city |-> previous_checkin.city,
                       current_city |-> current_checkin.city,
                       days_between |-> days_between,
                       distance_km |-> get_distance(previous_checkin.city,
                                                    current_checkin.city)]>>
    IN Concat([k \in 1..(Len(checkins) - 1) |-> Pair(k + 1)])

\* the call: what it returns and the list objects as it leaves them
detect_checkin_without_transportation(evs) ==
    LET checkin_events == SelectSeq(evs, LAMBDA e : e.kind = "DailyCheckInEvent")
        users == KeysInOrder([i \in 1..Len(evs) |-> evs[i].user_id])
        lists == SortAllInPlace(events_by_user_lists(evs),
                                [u \in 1..Len(users) |-> sorted_list(users[u])])
    IN IF Len(checkin_events) < 2
       THEN [result |-> Returned(<<>>), lists |-> events_by_user_lists(evs)]
       ELSE [result |-> Returned(Concat([u \in 1..Len(users) |->
                            suspicious_checkins(users[u],
                                                lists[checkins_list(users[u])],
                                                lists[transport_list(users[u])])])),
             lists |-> lists]

(***************************************************************************)
(* The list objects of                                                     *)
(* llm-rules-partial-functions/rules/fd_ubiquitous_presence.py             *)
(***************************************************************************)
\* cities_visited[city] of one user and date
cities_visited_list(user_id, event_date, city) ==
    <<"cities_visited", user_id, event_date, city>>

\* the list objects as detect_ubiquitous_presence leaves them: the lists of
\* the two cities of every pair beyond the daily travel limit are sorted
lists_after_ubiquitous_presence_nf(evs) ==
    LET names == { cities_visited_list(evs[i].user_id, DateOf(evs[i].earliest_start),
                                       evs[i].city) :
                     i \in { k \in 1..Len(evs) : evs[k].city # None } }
        Built(name) == SelectSeq(evs, LAMBDA e :
                           /\ e.user_id = name[2]
                           /\ DateOf(e.earliest_start) = name[3]
                           /\ e.city = name[4])
        Sorted(name) == \E other \in names :
                           /\ other[2] = name[2] /\ other[3] = name[3]
                           /\ other[4] # name[4]
                           /\ ExceedsDailyTravel(get_city_distance(name[4], other[4]))
    IN [name \in {InputList} \cup names |->
           IF name = InputList THEN evs
           ELSE IF Sorted(name) THEN SortByStart(Built(name)) ELSE Built(name)]

(***************************************************************************)
(* Two rules over one shared group and context, in either order.           *)
(***************************************************************************)
CheckinTransportRule == "FD-CHECKIN-WITHOUT-TRANSPORTATION"

UbiquitousNFRule == "FD-UBIQUITOUS-PRESENCE-NF"

UsersShared == {"u1", "u2"}

\* <<class, location city, from city, to city, taxi to or from a hub>>
ShapesShared ==
    {<<"DailyCheckInEvent", "Beijing", None, None, FALSE>>,
     <<"DailyCheckInEvent", "Shanghai", None, None, FALSE>>,
     <<"DailyCheckInEvent", None, None, None, FALSE>>,
     <<"FlightEvent", None, "Beijing", "Shanghai", FALSE>>,
     <<"TaxiEvent", "Shanghai", None, None, TRUE>>,
     <<"FuelEvent", "Beijing", None, None, FALSE>>}

\* earliest_start: two hours of one day, and an hour five days later
StartsShared == {0, 1, 120}

GroupsShared(n) ==
    { [i \in 1..n |-> [event_id |-> i, user_id |-> f[i][1], kind |-> f[i][2][1],
                       city |-> f[i][2][2], from_location |-> f[i][2][3],
                       to_location |-> f[i][2][4], is_transport_related |-> f[i][2][5],
                       earliest_start |-> f[i][3], latest_end |-> f[i][3] + 1,
                       exact_start_time |-> NoTime]] :
        f \in [1..n -> UsersShared \X ShapesShared \X StartsShared] }

InitShared ==
    /\ rule_id = ""
    /\ \E n \in 0..MaxGroupShared : events \in GroupsShared(n)
    /\ context = <<>>
    /\ result = NotRun
    /\ locals = [group |-> events, context |-> context,
                 results |-> (CheckinTransportRule :> NotRun) @@ (UbiquitousNFRule :> NotRun)]
    /\ pc = "shared"

DetectCheckinWithoutTransportation ==
    /\ pc = "shared"
    /\ locals.results[CheckinTransportRule] = NotRun
    /\ LET call == detect_checkin_without_transportation(events)
       IN /\ result' = call.result
          /\ events' = call.lists[InputList]
          /\ locals' = [locals EXCEPT !.results[CheckinTransportRule] = call.result]
    /\ rule_id' = CheckinTransportRule
    /\ UNCHANGED <<context, pc>>

DetectUbiquitousPresenceNFShared ==
    /\ pc = "shared"
    /\ locals.results[UbiquitousNFRule] = NotRun
    /\ result' = detect_ubiquitous_presence_nf(events)
    /\ events' = lists_after_ubiquitous_presence_nf(events)[InputList]
    /\ locals' = [locals EXCEPT !.results[UbiquitousNFRule] = result']
    /\ rule_id' = UbiquitousNFRule
    /\ UNCHANGED <<context, pc>>

NextShared == DetectCheckinWithoutTransportation \/ DetectUbiquitousPresenceNFShared

SpecShared == InitShared /\ [][NextShared]_vars

\* what a rule returns when it runs alone on the group
AloneResult(rule, group) ==
    IF rule = CheckinTransportRule THEN detect_checkin_without_transportation(group).result
    ELSE detect_ubiquitous_presence_nf(group)

\* C16: after any detect call the input event list has the same elements in
\* the same order with unchanged fields and the context is unchanged; hence
\* each rule's findings over the shared group are those it returns alone,
\* whichever rule ran first.
C16_DetectLeavesInputsUnchanged ==
    pc = "shared" =>
        /\ events = locals.group
        /\ context = locals.context
        /\ \A rule \in DOMAIN locals.results :
              locals.results[rule] # NotRun =>
                  locals.results[rule] = AloneResult(rule, locals.group)

\* C16 witness: both rules have run over a group in which a user's check-ins
\* were out of order, so that the sort reordered them, and a finding came out.
C16_Witness ==
    /\ pc = "shared"
    /\ \A rule \in DOMAIN locals.results : locals.results[rule] # NotRun
    /\ locals.results[CheckinTransportRule].status = "findings"
    /\ \E u \in UsersShared :
          LET checkins == SelectSeq(events, LAMBDA e : e.user_id = u
                                                      /\ e.kind = "DailyCheckInEvent")
          IN SortByStart(checkins) # checkins

(***************************************************************************)
(* llm-rules-partial-functions/rules/fd_taxi_multicity_nofunc.py           *)
(***************************************************************************)
\* the city names, in the order of Python's string comparison
CityNamesNofunc == <<"A", "B", "C">>

CityRank(city) == CHOOSE i \in 1..Len(CityNamesNofunc) : CityNamesNofunc[i] = city

\* the orders in which a run may iterate over a set of city names
IterationOrdersNofunc ==
    { o \in [1..Len(CityNamesNofunc) -> 1..Len(CityNamesNofunc)] :
        \A i, j \in DOMAIN o : i # j => o[i] # o[j] }

\* "for city in cities_visited" under the iteration order o
IterateSet(cities, o) ==
    SelectSeq([i \in 1..Len(CityNamesNofunc) |-> CityNamesNofunc[o[i]]],
              LAMBDA c : c \in cities)

\* the pairs taken by position in the iteration instead of by name
city_pairs_by_position(iteration) ==
    Concat([i \in 1..Len(iteration) |->
               SelectSeq([j \in 1..Len(iteration) |-> <<iteration[i], iteration[j]>>],
                         LAMBDA p : \E j \in (i + 1)..Len(iteration) : p[2] = iteration[j])])

\* the (city1, city2) the nested loops reach past "if city1 >= city2: continue"
city_pairs(iteration) ==
    Concat([i \in 1..Len(iteration) |->
               SelectSeq([j \in 1..Len(iteration) |-> <<iteration[i], iteration[j]>>],
                         LAMBDA p : ~(CityRank(p[1]) >= CityRank(p[2])))])

\* city_to_events[city]: the user's sorted taxi rides located in the city
city_to_events(taxi_events, city) == SelectSeq(taxi_events, LAMBDA e : e.city = city)

\* has_transport for the pair (city1, city2)
has_intercity_transport(city1, city2, taxi_events, intercity_events) ==
    LET city1_taxis == SortByStart(city_to_events(taxi_events, city1))
        city2_taxis == SortByStart(city_to_events(taxi_events, city2))
        earliest_city1 == city1_taxis[1].earliest_start
        latest_city1 == city1_taxis[Len(city1_taxis)].latest_end
        earliest_city2 == city2_taxis[1].earliest_start
        latest_city2 == city2_taxis[Len(city2_taxis)].latest_end
    IN \E k \in 1..Len(intercity_events) :
          LET transport == intercity_events[k]
          IN /\ transport.from_location # None
             /\ transport.to_location # None
             /\ \/ /\ is_same_city(transport.from_location, city1)
                   /\ is_same_city(transport.to_location, city2)
                \/ /\ is_same_city(transport.from_location, city2)
                   /\ is_same_city(transport.to_location, city1)
             /\ \/ /\ latest_city1 < earliest_city2
                   /\ transport.earliest_start >= latest_city1
                   /\ transport.latest_end <= earliest_city2
                \/ /\ latest_city2 < earliest_city1
                   /\ transport.earliest_start >= latest_city2
                   /\ transport.latest_end <= earliest_city1

\* the fraud instances of one user, under the iteration order o
user_fraud_instances(user_id, user_events, o) ==
    LET taxi_events == SortByStart(SelectSeq(user_events, LAMBDA e : e.kind = "TaxiEvent"))
        cities_visited == {taxi_events[i].city : i \in 1..Len(taxi_events)} \ {None}
        intercity_events == SelectSeq(user_events,
                                LAMBDA e : e.kind \in {"FlightEvent", "RailwayEvent"})
        suspicious_city_pairs ==
            SelectSeq(city_pairs(IterateSet(cities_visited, o)),
                      LAMBDA p : ~has_intercity_transport(p[1], p[2], taxi_events,
                                                          intercity_events))
    IN IF Len(taxi_events) < 2 \/ Cardinality(cities_visited) < 2 THEN <<>>
       ELSE [k \in 1..Len(suspicious_city_pairs) |->
               LET city1 == suspicious_city_pairs[k][1]
                   city2 == suspicious_city_pairs[k][2]
                   city1_taxis == city_to_events(taxi_events, city1)
                   city2_taxis == city_to_events(taxi_events, city2)
                   primary_event ==
                       IF city1_taxis[1].earliest_start <= city2_taxis[1].earliest_start
                       THEN city1_taxis[1] ELSE city2_taxis[1]
               IN [primary_event_id |-> primary_event.event_id,
                   user_id |-> user_id,
                   city1 |-> city1,
                   city2 |-> city2,
                   city1_event_ids |-> [i \in 1..Len(city1_taxis) |-> city1_taxis[i].event_id],
                   city2_event_ids |-> [i \in 1..Len(city2_taxis) |-> city2_taxis[i].event_id]]]

detect_taxi_multicity_no_intercity(evs, o) ==
    LET users == KeysInOrder([i \in 1..Len(evs) |-> evs[i].user_id])
    IN Returned(Concat([k \in 1..Len(users) |->
                          user_fraud_instances(users[k],
                              SelectSeq(evs, LAMBDA e : e.user_id = users[k]), o)]))

UsersNofunc == {"u1", "u2"}

\* <<class, user, taxi city, from city, to city, earliest_start, latest_end>>
TaxiShapesNofunc ==
    { <<"TaxiEvent", "u1", c, None, None, w[1], w[2]>> :
        c \in {"A", "B", "C", None}, w \in {<<0, 1>>, <<4, 5>>} }
        \cup {<<"TaxiEvent", "u2", "A", None, None, 0, 1>>}

TransportShapesNofunc ==
    { <<"FlightEvent", "u1", None, "A", "B", 2, 3>>,
      <<"RailwayEvent", "u1", None, "C", "B", 2, 3>>,
      <<"RailwayEvent", "u1", None, "B", "A", 0, 3>> }

ShapesNofunc == TaxiShapesNofunc \cup TransportShapesNofunc

GroupsNofunc(n) ==
    { [i \in 1..n |-> [event_id |-> i, kind |-> f[i][1], user_id |-> f[i][2],
                       city |-> f[i][3], from_location |-> f[i][4],
                       to_location |-> f[i][5],
                       earliest_start |-> f[i][6], latest_end |-> f[i][7]]] :
        f \in [1..n -> ShapesNofunc] }

InitNofunc ==
    /\ rule_id = "FD-TAXI-MULTICITY-NO-INTERCITY-TRANSPORT"
    /\ \E n \in 0..MaxGroupNofunc : events \in GroupsNofunc(n)
    /\ context = <<>>
    /\ result = NotRun
    /\ locals = [runs |-> <<>>]
    /\ pc = "ready"

\* one run of the rule over the group; a later run is another process, whose
\* sets of strings iterate in an order of their own
DetectTaxiMulticityNofunc ==
    /\ rule_id = "FD-TAXI-MULTICITY-NO-INTERCITY-TRANSPORT"
    /\ pc = "ready"
    /\ Len(locals.runs) < RunsNofunc
    /\ \E o \in IterationOrdersNofunc :
          /\ result' = IF events = <<>> THEN Returned(<<>>)
                       ELSE detect_taxi_multicity_no_intercity(events, o)
          /\ locals' = [runs |-> Append(locals.runs, result')]
    /\ UNCHANGED <<rule_id, events, context, pc>>

NextNofunc == DetectTaxiMulticityNofunc

SpecNofunc == InitNofunc /\ [][NextNofunc]_vars

\* the findings of a run, without their order
FindingSet(r) == {r.findings[i] : i \in 1..Len(r.findings)}

JustifyingHours == 24

\* one travel event justifies the hotel stay
travel_justifies(travel_event, hotel_event) ==
    /\ travel_event.user_id = hotel_event.user_id
    /\ travel_event.to_location # None
    /\ travel_event.to_location = hotel_event.city
    /\ time_difference(travel_event.latest_end, hotel_event.earliest_start)
           <= JustifyingHours

\* the hotel stays the loop does not skip before it looks for travel
examined_hotel(hotel_event, ctx) ==
    LET default_work_location == ContextGet(ctx, "default_work_locations", <<>>)
        min_stay_nights == ContextGet(ctx, "min_suspicious_stay_nights", 1)
        user_work_city == CityOfUser(default_work_location, hotel_event.user_id)
    IN /\ hotel_event.city # None
       /\ user_work_city # None
       /\ hotel_event.city # user_work_city
       /\ ~(time_difference(hotel_event.earliest_start, hotel_event.latest_end)
               < HoursPerDay * min_stay_nights)

detect_hotel_stay_without_travel(evs, ctx) ==
    LET hotel_events == SelectSeq(evs, LAMBDA e : e.kind = "HotelEvent")
        travel_events == SelectSeq(evs, LAMBDA e : e.kind \in {"FlightEvent", "RailwayEvent"})
        suspicious == SelectSeq(hotel_events, LAMBDA h :
            /\ examined_hotel(h, ctx)
            /\ ~\E k \in 1..Len(travel_events) : travel_justifies(travel_events[k], h))
    IN Returned([k \in 1..Len(suspicious) |->
           [primary_event_id |-> suspicious[k].event_id,
            user_id |-> suspicious[k].user_id,
            hotel_city |-> suspicious[k].city,
            work_city |-> CityOfUser(ContextGet(ctx, "default_work_locations", <<>>),
                                     suspicious[k].user_id),
            check_in |-> suspicious[k].earliest_start,
            check_out |-> suspicious[k].latest_end]])

UsersNoTravel == {"u1", "u2"}

\* <<class, location city, to_location city, earliest_start, latest_end>>:
\* stays checking in at hour 36, travel ending 30 and 24 hours before that,
\* at check-in, and 24 and 30 hours after it
ShapesNoTravel ==
    { <<"HotelEvent", "B", None, 36, 60>>, <<"HotelEvent", "B", None, 36, 48>>,
      <<"HotelEvent", "A", None, 36, 60>>, <<"HotelEvent", None, None, 36, 60>> }
    \cup { <<t[1], None, t[2], end - 1, end>> :
             t \in {<<"FlightEvent", "B">>, <<"RailwayEvent", "B">>, <<"FlightEvent", "A">>},
             end \in {6, 12, 36, 60, 66} }

ContextsNoTravel ==
    {<<>>,
     [default_work_locations |-> [u1 |-> "A", u2 |-> "A"]],
     [default_work_locations |-> [u1 |-> "A"], min_suspicious_stay_nights |-> 2]}

GroupsNoTravel(n) ==
    { [i \in 1..n |-> [event_id |-> i, user_id |-> f[i][1], kind |-> f[i][2][1],
                       city |-> f[i][2][2], to_location |-> f[i][2][3],
                       earliest_start |-> f[i][2][4], latest_end |-> f[i][2][5]]] :
        f \in [1..n -> UsersNoTravel \X ShapesNoTravel] }

InitNoTravel ==
    /\ rule_id = "FD-HOTEL-NO-TRAVEL"
    /\ \E n \in 0..MaxGroupNoTravel : events \in GroupsNoTravel(n)
    /\ context \in ContextsNoTravel
    /\ result = NotRun
    /\ locals = <<>>
    /\ pc = "ready"

DetectHotelStayWithoutTravel ==
    /\ rule_id = "FD-HOTEL-NO-TRAVEL"
    /\ pc = "ready"
    /\ result' = detect_hotel_stay_without_travel(events, context)
    /\ pc' = "done"
    /\ UNCHANGED <<rule_id, events, context, locals>>

NextNoTravel == DetectHotelStayWithoutTravel

SpecNoTravel == InitNoTravel /\ [][NextNoTravel]_vars

\* C19: a hotel stay the rule examines produces no finding if and only if
\* the group holds a flight or railway event of the same user, arriving in
\* the hotel city, that ends before check-in or within 24 hours after it
\* (travel latest_end <= hotel earliest_start + 24 h).
C19_TravelJustifiesUpTo24hAfterCheckIn ==
    pc = "done" =>
        \A i \in 1..Len(events) :
            (events[i].kind = "HotelEvent" /\ examined_hotel(events[i], context)) =>
                ((~\E f \in 1..Len(result.findings) :
                      result.findings[f].primary_event_id = events[i].event_id)
                 <=> \E k \in 1..Len(events) :
                        /\ events[k].kind \in {"FlightEvent", "RailwayEvent"}
                        /\ events[k].user_id = events[i].user_id
                        /\ events[k].to_location = events[i].city
                        /\ events[k].latest_end <= events[i].earliest_start + 24)

(***************************************************************************)
(* llm_rules/fd_flight_ground_conflict.py                                  *)
(* Times of this rule count minutes.                                       *)
(***************************************************************************)
\* rule.do_time_intervals_overlap(window1, window2): closed intervals
do_time_intervals_overlap(window1, window2) ==
    Max2(window1.earliest_start, window2.earliest_start)
        <= Min2(window1.latest_end, window2.latest_end)

\* rule.get_overlap_duration(window1, window2, unit="minutes")
get_overlap_duration(window1, window2) ==
    Max2(0, Min2(window1.latest_end, window2.latest_end)
                - Max2(window1.earliest_start, window2.earliest_start))

\* timedelta(hours=1.5), in minutes
BufferBeforeMinutes == 90

\* timedelta(hours=1), in minutes
BufferAfterMinutes == 60

\* "if overlap_minutes >= 15"
MinOverlapMinutes == 15

\* the window [buffered_start, buffered_end] of a flight
buffered_window(flight) ==
    [earliest_start |-> flight.earliest_start - BufferBeforeMinutes,
     latest_end |-> flight.latest_end + BufferAfterMinutes]

\* flight.time_window, ground.time_window
time_window(e) == [earliest_start |-> e.earliest_start, latest_end |-> e.latest_end]

\* the ground events appended to conflicting_events for one flight
conflicting_events(flight, ground_events) ==
    LET flight_time == time_window(flight)
        conflicting == SelectSeq(ground_events, LAMBDA ground :
            /\ ground.user_id = flight.user_id
            /\ ground.city # None
            /\ IF ground.city = flight.from_location \/ ground.city = flight.to_location
               THEN /\ do_time_intervals_overlap(time_window(ground), flight_time)
                    /\ get_overlap_duration(time_window(ground), flight_time)
                           >= MinOverlapMinutes
               ELSE /\ do_time_intervals_overlap(time_window(ground), time_window(flight))
                    /\ get_overlap_duration(time_window(ground), time_window(flight))
                           >= MinOverlapMinutes)
    IN [k \in 1..Len(conflicting) |->
           [event_id |-> conflicting[k].event_id,
            event_type |-> conflicting[k].kind,
            city |-> conflicting[k].city,
            overlap_minutes |-> get_overlap_duration(time_window(conflicting[k]),
                                                     flight_time)]]

detect_flight_ground_conflict(evs) ==
    LET flight_events == SelectSeq(evs, LAMBDA e : e.kind = "FlightEvent")
        ground_events == SelectSeq(evs, LAMBDA e :
            e.kind \in {"TaxiEvent", "FuelEvent", "DailyCheckInEvent"})
        suspicious == SelectSeq(flight_events, LAMBDA flight :
            /\ flight.from_location # None
            /\ flight.to_location # None
            /\ conflicting_events(flight, ground_events) # <<>>)
    IN IF flight_events = <<>> \/ ground_events = <<>> THEN Returned(<<>>)
       ELSE Returned([k \in 1..Len(suspicious) |->
               [primary_event_id |-> suspicious[k].event_id,
                user_id |-> suspicious[k].user_id,
                flight_from |-> suspicious[k].from_location,
                flight_to |-> suspicious[k].to_location,
                conflicting_events |-> conflicting_events(suspicious[k], ground_events)]])

UsersConflict == {"u1", "u2"}

\* <<earliest_start, latest_end>> of ground events around a flight over
\* [200, 320]: inside the buffer before it only, 10 and 15 minutes into the
\* flight, inside the buffer after it only, and after the buffer
GroundWindowsConflict ==
    {<<110, 130>>, <<190, 210>>, <<190, 215>>, <<330, 350>>, <<400, 420>>}

\* <<class, location city, from city, to city, earliest_start, latest_end>>
ShapesConflict ==
    { <<g[1], g[2], None, None, w[1], w[2]>> :
        g \in {<<"TaxiEvent", "A">>, <<"DailyCheckInEvent", "B">>, <<"FuelEvent", "C">>,
               <<"DailyCheckInEvent", "C">>, <<"TaxiEvent", None>>},
        w \in GroundWindowsConflict }
    \cup { <<"FlightEvent", None, "A", "B", 200, 320>>,
           <<"FlightEvent", None, None, "B", 200, 320>>,
           <<"HotelEvent", "C", None, None, 190, 215>> }

GroupsConflict(n) ==
    { [i \in 1..n |-> [event_id |-> i, user_id |-> f[i][1], kind |-> f[i][2][1],
                       city |-> f[i][2][2], from_location |-> f[i][2][3],
                       to_location |-> f[i][2][4],
                       earliest_start |-> f[i][2][5], latest_end |-> f[i][2][6]]] :
        f \in [1..n -> UsersConflict \X ShapesConflict] }

InitConflict ==
    /\ rule_id = "FD-FLIGHT-GROUND-CONFLICT"
    /\ \E n \in 0..MaxGroupConflict : events \in GroupsConflict(n)
    /\ context = <<>>
    /\ result = NotRun
    /\ locals = <<>>
    /\ pc = "ready"

DetectFlightGroundConflict ==
    /\ rule_id = "FD-FLIGHT-GROUND-CONFLICT"
    /\ pc = "ready"
    /\ result' = detect_flight_ground_conflict(events)
    /\ pc' = "done"
    /\ UNCHANGED <<rule_id, events, context, locals>>

NextConflict == DetectFlightGroundConflict

SpecConflict == InitConflict /\ [][NextConflict]_vars

\* the finding of the flight lists the ground event as conflicting
ReportedConflict(flight, ground) ==
    \E f \in 1..Len(result.findings) :
        /\ result.findings[f].primary_event_id = flight.event_id
        /\ \E k \in 1..Len(result.findings[f].conflicting_events) :
              result.findings[f].conflicting_events[k].event_id = ground.event_id

\* C20: for a flight with both cities known and a located ground event of the
\* same user, the ground event is reported as conflicting exactly when it
\* overlaps by at least 15 minutes the actual flight window, if it lies in
\* the departure or arrival city, or the buffered window (1.5 hours before
\* earliest_start to 1 hour after latest_end), if it lies in another city.
C20_OtherCityUsesBufferedWindow ==
    pc = "done" =>
        \A i, j \in 1..Len(events) :
            LET flight == events[i]
                ground == events[j]
                window == IF ground.city \in {flight.from_location, flight.to_location}
                          THEN time_window(flight) ELSE buffered_window(flight)
            IN (/\ flight.kind = "FlightEvent"
                /\ flight.from_location # None /\ flight.to_location # None
                /\ ground.kind \in {"TaxiEvent", "FuelEvent", "DailyCheckInEvent"}
                /\ ground.user_id = flight.user_id
                /\ ground.city # None)
               => (ReportedConflict(flight, ground)
                   <=> /\ do_time_intervals_overlap(time_window(ground), window)
                       /\ get_overlap_duration(time_window(ground), window)
                              >= MinOverlapMinutes)

(***************************************************************************)
(* llm-rules-partial-functions/rules/                                      *)
(*     fd_flight_hotel_city_mismatch_nofunc.py                             *)
(* Times of this rule count hours.                                         *)
(***************************************************************************)
\* timeline.sort(key=lambda x: x["time"]): stable
RECURSIVE InsertByTime(_, _)
InsertByTime(x, s) ==
    IF s = <<>> THEN <<x>>
    ELSE IF Head(s).time <= x.time
         THEN <<Head(s)>> \o InsertByTime(x, Tail(s))
         ELSE <<x>> \o s

RECURSIVE SortByTime(_)
SortByTime(s) ==
    IF s = <<>> THEN <<>>
    ELSE InsertByTime(s[Len(s)], SortByTime(SubSeq(s, 1, Len(s) - 1)))

TimelineEntry(time, city, type, e) ==
    [time |-> time, city |-> city, type |-> type, event_id |-> e.event_id]

\* the sorted timeline of one user's flights, hotel stays and railway trips
timeline(user_events) ==
    LET hotel_events == SortByStart(SelectSeq(user_events, LAMBDA e : e.kind = "HotelEvent"))
        flight_events == SortByStart(SelectSeq(user_events, LAMBDA e : e.kind = "FlightEvent"))
        railway_events == SelectSeq(user_events, LAMBDA e : e.kind = "RailwayEvent")
        Arrival(e, type) ==
            IF e.to_location # None
            THEN <<TimelineEntry(EffectiveEnd(e), e.to_location, type, e)>> ELSE <<>>
        Departure(e, type) ==
            IF e.from_location # None
            THEN <<TimelineEntry(EffectiveStart(e), e.from_location, type, e)>> ELSE <<>>
        Stay(e) ==
            IF e.city = None THEN <<>>
            ELSE <<TimelineEntry(EffectiveStart(e), e.city, "hotel_check_in", e),
                   TimelineEntry(EffectiveEnd(e), e.city, "hotel_check_out", e)>>
    IN SortByTime(
          Concat([k \in 1..Len(flight_events) |->
                     Arrival(flight_events[k], "flight_arrival")
                         \o Departure(flight_events[k], "flight_departure")])
          \o Concat([k \in 1..Len(hotel_events) |-> Stay(hotel_events[k])])
          \o Concat([k \in 1..Len(railway_events) |->
                        Departure(railway_events[k], "railway_departure")
                            \o Arrival(railway_events[k], "railway_arrival")]))

\* has_connection for timeline[i] and next_event = timeline[i + 1]: the scan
\* starts at i + 1 and stops at the first entry of next_event's event
has_connection(tl, i) ==
    LET next_event == tl[i + 1]
        RECURSIVE Scan(_)
        Scan(j) ==
            IF j > Len(tl) THEN FALSE
            ELSE IF tl[j].event_id = next_event.event_id THEN FALSE
            ELSE IF /\ tl[j].type \in {"flight_arrival", "railway_arrival"}
                    /\ tl[j].city = next_event.city
                    /\ tl[j].time < next_event.time
                 THEN TRUE
                 ELSE Scan(j + 1)
    IN Scan(i + 1)

\* the fraud instances of one user
user_city_mismatches(user_id, user_events) ==
    LET tl == timeline(user_events)
        Check(i) ==
            IF /\ tl[i].type = "flight_arrival"
               /\ tl[i + 1].type = "hotel_check_in"
               /\ tl[i].city # tl[i + 1].city
               /\ ~has_connection(tl, i)
            THEN <<[primary_event_id |-> tl[i + 1].event_id,
                    secondary_event_id |-> tl[i].event_id,
                    user_id |-> user_id,
                    flight_arrival_city |-> tl[i].city,
                    hotel_city |-> tl[i + 1].city,
                    flight_arrival_time |-> tl[i].time,
                    hotel_check_in_time |-> tl[i + 1].time]>>
            ELSE <<>>
    IN IF ~(\E k \in 1..Len(user_events) : user_events[k].kind = "HotelEvent")
          \/ ~(\E k \in 1..Len(user_events) : user_events[k].kind = "FlightEvent")
       THEN <<>>
       ELSE Concat([i \in 1..(Len(tl) - 1) |-> Check(i)])

detect_flight_hotel_city_mismatch(evs) ==
    LET users == KeysInOrder([i \in 1..Len(evs) |-> evs[i].user_id])
    IN Returned(Concat([k \in 1..Len(users) |->
                          user_city_mismatches(users[k],
                              SelectSeq(evs, LAMBDA e : e.user_id = users[k]))]))

\* <<class, user, hotel city, from city, to city, earliest_start, latest_end>>
ShapesMismatch ==
    { <<"FlightEvent", "u1", None, r[1], r[2], w[1], w[2]>> :
        r \in {<<"C", "A">>, <<"A", "B">>, <<None, "A">>}, w \in {<<0, 1>>, <<2, 3>>} }
    \cup { <<"HotelEvent", "u1", c, None, None, w[1], w[2]>> :
             c \in {"A", "B"}, w \in {<<0, 3>>, <<4, 6>>, <<5, 7>>} }
    \cup { <<"RailwayEvent", "u1", None, r[1], r[2], w[1], w[2]>> :
             r \in {<<"A", "B">>, <<"C", None>>}, w \in {<<1, 2>>, <<2, 3>>} }
    \cup { <<"HotelEvent", "u2", "B", None, None, 4, 6>>,
           <<"TaxiEvent", "u1", None, "A", "B", 2, 3>> }

GroupsMismatch(n) ==
    { [i \in 1..n |-> [event_id |-> i, kind |-> f[i][1], user_id |-> f[i][2],
                       city |-> f[i][3], from_location |-> f[i][4],
                       to_location |-> f[i][5],
                       earliest_start |-> f[i][6], latest_end |-> f[i][7],
                       exact_start_time |-> NoTime, exact_end_time |-> NoTime]] :
        f \in [1..n -> ShapesMismatch] }

InitMismatch ==
    /\ rule_id = "FD-FLIGHT-HOTEL-CITY-MISMATCH"
    /\ \E n \in 0..MaxGroupMismatch : events \in GroupsMismatch(n)
    /\ context = <<>>
    /\ result = NotRun
    /\ locals = <<>>
    /\ pc = "ready"

DetectFlightHotelCityMismatch ==
    /\ rule_id = "FD-FLIGHT-HOTEL-CITY-MISMATCH"
    /\ pc = "ready"
    /\ result' = IF events = <<>> THEN Returned(<<>>)
                 ELSE detect_flight_hotel_city_mismatch(events)
    /\ pc' = "done"
    /\ UNCHANGED <<rule_id, events, context, locals>>

NextMismatch == DetectFlightHotelCityMismatch

SpecMismatch == InitMismatch /\ [][NextMismatch]_vars

\* C21: for a user's flight arriving in city A and the hotel stay whose
\* check-in is the next one after that arrival, in a city B other than A, a
\* finding naming the two is produced exactly when no flight or railway
\* arrival of the user at B lies strictly between the arrival and the
\* check-in; other entries between the two do not suppress it.
C21_ArrivalThenNextCheckInElsewhereReported ==
    pc = "done" =>
        \A i, j \in 1..Len(events) :
            LET flight == events[i]
                hotel == events[j]
            IN (/\ flight.kind = "FlightEvent" /\ hotel.kind = "HotelEvent"
                /\ flight.user_id = hotel.user_id
                /\ flight.to_location # None /\ hotel.city # None
                /\ flight.to_location # hotel.city
                /\ EffectiveEnd(flight) < EffectiveStart(hotel)
                /\ ~\E k \in 1..Len(events) :
                       /\ k # j
                       /\ events[k].kind = "HotelEvent"
                       /\ events[k].user_id = hotel.user_id
                       /\ events[k].city # None
                       /\ EffectiveEnd(flight) < EffectiveStart(events[k])
                       /\ EffectiveStart(events[k]) <= EffectiveStart(hotel))
               => ((\E f \in 1..Len(result.findings) :
                       /\ result.findings[f].primary_event_id = hotel.event_id
                       /\ result.findings[f].secondary_event_id = flight.event_id)
                   <=> ~\E k \in 1..Len(events) :
                          /\ events[k].kind \in {"FlightEvent", "RailwayEvent"}
                          /\ events[k].user_id = flight.user_id
                          /\ events[k].to_location = hotel.city
                          /\ EffectiveEnd(flight) < EffectiveEnd(events[k])
                          /\ EffectiveEnd(events[k]) < EffectiveStart(hotel))

(***************************************************************************)
(* llm-rules-partial-functions/rules/fd_hotel_taxi_check_in_out_nofunc.py  *)
(* Times of this rule count hours.                                         *)
(***************************************************************************)
\* time_buffer_hours
time_buffer_hours == 2

\* datetime.hour: the hour of the day of a timestamp
HourOf(t) == t % HoursPerDay

\* a.lower() in b.lower(), over the specific locations of the model
LowerIn(a, b) == a = b \/ a = "" \/ <<a, b>> \in {<<"h", "h lobby">>}

\* has_matching_specific_location
has_matching_specific_location(hotel_specific_location, taxi_specific_location) ==
    /\ hotel_specific_location # ""
    /\ taxi_specific_location # ""
    /\ \/ LowerIn(hotel_specific_location, taxi_specific_location)
       \/ LowerIn(taxi_specific_location, hotel_specific_location)

\* adjusted_arrival_date: arrivals before 2 AM count for the day before
adjusted_arrival_date(taxi_arrival_time) ==
    IF HourOf(taxi_arrival_time) < time_buffer_hours
    THEN DateOf(taxi_arrival_time - HoursPerDay)
    ELSE DateOf(taxi_arrival_time)

\* the check-in conflicts of one hotel stay
check_in_conflicts(user_id, hotel, taxi_events) ==
    LET check_in_time == EffectiveStart(hotel)
        Conflict(taxi) ==
            LET taxi_arrival_time == EffectiveEnd(taxi)
                matching == has_matching_specific_location(hotel.specific_location,
                                                           taxi.to_specific_location)
                date_difference == Abs(adjusted_arrival_date(taxi_arrival_time)
                                          - DateOf(check_in_time))
            IN IF /\ taxi.to_location # None
                  /\ (matching \/ taxi.to_location = hotel.city)
                  /\ date_difference > 0
               THEN <<[primary_event_id |-> hotel.event_id,
                       taxi_event_id |-> taxi.event_id,
                       user_id |-> user_id,
                       conflict_type |-> "check_in",
                       hotel_city |-> hotel.city,
                       date_difference |-> date_difference,
                       is_late_night |-> HourOf(taxi_arrival_time) < time_buffer_hours,
                       location_match_confidence |-> IF matching THEN "high" ELSE "medium"]>>
               ELSE <<>>
    IN Concat([k \in 1..Len(taxi_events) |-> Conflict(taxi_events[k])])

\* the check-out conflicts of one hotel stay
check_out_conflicts(user_id, hotel, taxi_events) ==
    LET check_out_time == EffectiveEnd(hotel)
        Conflict(taxi) ==
            LET taxi_departure_time == EffectiveStart(taxi)
                matching == has_matching_specific_location(hotel.specific_location,
                                                           taxi.from_specific_location)
                date_difference == Abs(DateOf(taxi_departure_time) - DateOf(check_out_time))
            IN IF /\ taxi.from_location # None
                  /\ (matching \/ taxi.from_location = hotel.city)
                  /\ date_difference > 0
               THEN <<[primary_event_id |-> hotel.event_id,
                       taxi_event_id |-> taxi.event_id,
                       user_id |-> user_id,
                       conflict_type |-> "check_out",
                       hotel_city |-> hotel.city,
                       date_difference |-> date_difference,
                       is_late_night |-> FALSE,
                       location_match_confidence |-> IF matching THEN "high" ELSE "medium"]>>
               ELSE <<>>
    IN Concat([k \in 1..Len(taxi_events) |-> Conflict(taxi_events[k])])

detect_hotel_taxi_checkin_checkout_conflict(evs) ==
    LET users == KeysInOrder([i \in 1..Len(evs) |-> evs[i].user_id])
        ForUser(user_id) ==
            LET user_events == SelectSeq(evs, LAMBDA e : e.user_id = user_id)
                hotel_events == SelectSeq(user_events, LAMBDA e : e.kind = "HotelEvent")
                taxi_events == SelectSeq(user_events, LAMBDA e : e.kind = "TaxiEvent")
                ForHotel(hotel) ==
                    IF hotel.city = None THEN <<>>
                    ELSE check_in_conflicts(user_id, hotel, taxi_events)
                             \o check_out_conflicts(user_id, hotel, taxi_events)
            IN IF hotel_events = <<>> \/ taxi_events = <<>> THEN <<>>
               ELSE Concat([h \in 1..Len(hotel_events) |-> ForHotel(hotel_events[h])])
    IN Returned(Concat([u \in 1..Len(users) |-> ForUser(users[u])]))

\* <<class, user, hotel city, hotel specific location, from city, from
\* specific location, to city, to specific location, earliest_start,
\* latest_end>>: check-in at 01:00 or 14:00 of day 1; taxis arriving at 01:00
\* and 16:00 of day 1 and at 01:00 and 04:00 of day 2
ShapesCheckInOut ==
    { <<"HotelEvent", "u1", "A", s, None, "", None, "", w[1], w[2]>> :
        s \in {"", "h"}, w \in {<<25, 50>>, <<38, 86>>} }
    \cup { <<"TaxiEvent", "u1", None, "", r[1], "", r[2], "", end - 1, end>> :
             r \in {<<"A", "A">>, <<"B", "A">>, <<"A", None>>}, end \in {25, 40, 49, 52} }
    \cup { <<"TaxiEvent", "u1", None, "", "B", "", "B", "h lobby", 39, 40>>,
           <<"TaxiEvent", "u2", None, "", "A", "", "A", "", 24, 25>>,
           <<"HotelEvent", "u1", None, "", None, "", None, "", 38, 86>> }

GroupsCheckInOut(n) ==
    { [i \in 1..n |-> [event_id |-> i, kind |-> f[i][1], user_id |-> f[i][2],
                       city |-> f[i][3], specific_location |-> f[i][4],
                       from_location |-> f[i][5], from_specific_location |-> f[i][6],
                       to_location |-> f[i][7], to_specific_location |-> f[i][8],
                       earliest_start |-> f[i][9], latest_end |-> f[i][10],
                       exact_start_time |-> NoTime, exact_end_time |-> NoTime]] :
        f \in [1..n -> ShapesCheckInOut] }

InitCheckInOut ==
    /\ rule_id = "FD-HOTEL-TAXI-CHECK-IN-OUT"
    /\ \E n \in 0..MaxGroupCheckInOut : events \in GroupsCheckInOut(n)
    /\ context = <<>>
    /\ result = NotRun
    /\ locals = <<>>
    /\ pc = "ready"

DetectHotelTaxiCheckinCheckoutConflict ==
    /\ rule_id = "FD-HOTEL-TAXI-CHECK-IN-OUT"
    /\ pc = "ready"
    /\ result' = IF events = <<>> THEN Returned(<<>>)
                 ELSE detect_hotel_taxi_checkin_checkout_conflict(events)
    /\ pc' = "done"
    /\ UNCHANGED <<rule_id, events, context, locals>>

NextCheckInOut == DetectHotelTaxiCheckinCheckoutConflict

SpecCheckInOut == InitCheckInOut /\ [][NextCheckInOut]_vars

\* the event of the group with the given id
EventById(id) == events[CHOOSE i \in 1..Len(events) : events[i].event_id = id]

\* C22: every check_in finding names a taxi whose arrival calendar date
\* differs from the hotel's check-in calendar date; a taxi arriving on the
\* check-in date is never reported, whatever the hour, nor is one arriving
\* between 00:00 and 02:00 of the day after check-in.
C22_CheckInFindingOnlyOnOtherDate ==
    pc = "done" =>
        \A f \in 1..Len(result.findings) :
            result.findings[f].conflict_type = "check_in" =>
                LET hotel == EventById(result.findings[f].primary_event_id)
                    taxi == EventById(result.findings[f].taxi_event_id)
                IN /\ DateOf(EffectiveEnd(taxi)) # DateOf(EffectiveStart(hotel))
                   /\ ~(/\ DateOf(EffectiveEnd(taxi)) = DateOf(EffectiveStart(hotel)) + 1
                        /\ HourOf(EffectiveEnd(taxi)) < 2)

(***************************************************************************)
(* llm_rules/fd_fuel_exceed_tank_capacity.py                               *)
(* Prices count tenths of a yuan per litre; the amounts of the model are   *)
(* multiples of 15 yuan, so that amount / price is a whole number of       *)
(* litres.                                                                 *)
(***************************************************************************)
\* getattr(event, "fuel_amount_liters", None) answering None
NoLiters == -1

\* the default standard_fuel_tank_capacity, 100.0 litres
DefaultTankCapacityLiters == 100

\* the default fuel_price_per_liter, 7.5 yuan, in tenths of a yuan
DefaultFuelPriceTenths == 75

\* fuel_amount_liters after "if fuel_amount_liters is None: ..."
fuel_amount_liters(event, ctx) ==
    IF event.fuel_amount_liters = NoLiters
    THEN (event.amount * 10)
             \div ContextGet(ctx, "fuel_price_per_liter", DefaultFuelPriceTenths)
    ELSE event.fuel_amount_liters

\* "fuel_amount_liters is None", evaluated where the finding is built
estimated_flag(liters) == liters = NoLiters

detect_fuel_exceed_tank_capacity(evs, ctx) ==
    IF Len(evs) # 1 THEN Returned(<<>>)
    ELSE IF evs[1].kind # "FuelEvent" THEN Returned(<<>>)
    ELSE LET event == evs[1]
             threshold == ContextGet(ctx, "standard_fuel_tank_capacity",
                                     DefaultTankCapacityLiters)
             liters == fuel_amount_liters(event, ctx)
         IN IF liters > threshold
            THEN Returned(<<[primary_event_id |-> event.event_id,
                             amount |-> event.amount,
                             fuel_amount_liters |-> liters,
                             threshold |-> threshold,
                             excess_amount |-> liters - threshold,
                             estimated |-> estimated_flag(liters)]>>)
            ELSE Returned(<<>>)

\* <<class, user, amount, fuel_amount_liters>>
ShapesFuel ==
    { <<"FuelEvent", u, a, l>> :
        u \in {"u1", "u2"}, a \in {600, 750, 900, 1500},
        l \in {NoLiters, 50, 100, 101, 150} }
    \cup {<<"TaxiEvent", "u1", 900, NoLiters>>}

ContextsFuel ==
    {<<>>, [standard_fuel_tank_capacity |-> 80], [fuel_price_per_liter |-> 50],
     [standard_fuel_tank_capacity |-> 80, fuel_price_per_liter |-> 50]}

GroupsFuel(n) ==
    { [i \in 1..n |-> [event_id |-> i, kind |-> f[i][1], user_id |-> f[i][2],
                       amount |-> f[i][3], fuel_amount_liters |-> f[i][4]]] :
        f \in [1..n -> ShapesFuel] }

InitFuel ==
    /\ rule_id = "FD-FUEL-EXCEED-TANK-CAPACITY"
    /\ \E n \in 0..MaxGroupFuel : events \in GroupsFuel(n)
    /\ context \in ContextsFuel
    /\ result = NotRun
    /\ locals = <<>>
    /\ pc = "ready"

DetectFuelExceedTankCapacity ==
    /\ rule_id = "FD-FUEL-EXCEED-TANK-CAPACITY"
    /\ pc = "ready"
    /\ result' = detect_fuel_exceed_tank_capacity(events, context)
    /\ pc' = "done"
    /\ UNCHANGED <<rule_id, events, context, locals>>

NextFuel == DetectFuelExceedTankCapacity

SpecFuel == InitFuel /\ [][NextFuel]_vars

\* C26: in a finding, estimated is true exactly when the event carried no
\* fuel_amount_liters and the litres were computed as amount divided by
\* fuel_price_per_liter, and false exactly when the event supplied
\* fuel_amount_liters itself.
C26_EstimatedFlagTellsEstimation ==
    (pc = "done" /\ result.status = "findings") =>
        \A f \in 1..Len(result.findings) :
            result.findings[f].estimated <=> events[1].fuel_amount_liters = NoLiters

(***************************************************************************)
(* llm-rules-partial-functions/rules/                                      *)
(*     fd_hotel_flight_temporal_conflict_nofunc.py                         *)
(* Times of this rule count hours.                                         *)
(***************************************************************************)
\* timedelta(hours=2)
TransitBufferHours == 2

\* min_travel_hours
min_travel_hours == 3

\* scenario 1
departure_during_stay(hotel, flight) ==
    /\ flight.from_location # hotel.city
    /\ EffectiveStart(flight) > EffectiveStart(hotel)
    /\ EffectiveStart(flight) < EffectiveEnd(hotel)
    /\ EffectiveStart(flight) - TransitBufferHours > EffectiveStart(hotel)

\* scenario 2
arrival_during_stay(hotel, flight) ==
    /\ flight.to_location # hotel.city
    /\ EffectiveEnd(flight) > EffectiveStart(hotel)
    /\ EffectiveEnd(flight) < EffectiveEnd(hotel)
    /\ EffectiveEnd(flight) + TransitBufferHours < EffectiveEnd(hotel)

\* scenario 3 with the distance in time taken on either side of check-in
impossible_checkin_near_flight(hotel, flight) ==
    /\ flight.to_location # hotel.city
    /\ 0 < Abs(EffectiveStart(hotel) - EffectiveEnd(flight))
    /\ Abs(EffectiveStart(hotel) - EffectiveEnd(flight)) < min_travel_hours

\* scenario 3
impossible_checkin_after_flight(hotel, flight) ==
    /\ flight.to_location # hotel.city
    /\ 0 < EffectiveStart(hotel) - EffectiveEnd(flight)
    /\ EffectiveStart(hotel) - EffectiveEnd(flight) < min_travel_hours

\* scenario 4
impossible_checkout_before_flight(hotel, flight) ==
    /\ flight.from_location # hotel.city
    /\ 0 < EffectiveStart(flight) - EffectiveEnd(hotel)
    /\ EffectiveStart(flight) - EffectiveEnd(hotel) < min_travel_hours

\* the fraud instances of one hotel stay and one flight, in the code's order
pair_conflicts(user_id, hotel, flight) ==
    LET Instance(conflict_type) ==
            <<[primary_event_id |-> hotel.event_id,
               user_id |-> user_id,
               conflict_type |-> conflict_type,
               hotel_event_id |-> hotel.event_id,
               flight_event_id |-> flight.event_id,
               hotel_city |-> hotel.city]>>
    IN IF flight.from_location = None \/ flight.to_location = None THEN <<>>
       ELSE (IF departure_during_stay(hotel, flight)
             THEN Instance("departure_during_stay") ELSE <<>>)
            \o (IF arrival_during_stay(hotel, flight)
                THEN Instance("arrival_during_stay") ELSE <<>>)
            \o (IF impossible_checkin_after_flight(hotel, flight)
                THEN Instance("impossible_checkin_after_flight") ELSE <<>>)
            \o (IF impossible_checkout_before_flight(hotel, flight)
                THEN Instance("impossible_checkout_before_flight") ELSE <<>>)

detect_hotel_flight_temporal_conflict(evs) ==
    LET users == KeysInOrder([i \in 1..Len(evs) |-> evs[i].user_id])
        ForUser(user_id) ==
            LET user_events == SelectSeq(evs, LAMBDA e : e.user_id = user_id)
                hotel_events == SelectSeq(user_events, LAMBDA e : e.kind = "HotelEvent")
                flight_events == SelectSeq(user_events, LAMBDA e : e.kind = "FlightEvent")
                ForHotel(hotel) ==
                    IF hotel.city = None THEN <<>>
                    ELSE Concat([k \in 1..Len(flight_events) |->
                                    pair_conflicts(user_id, hotel, flight_events[k])])
            IN IF hotel_events = <<>> \/ flight_events = <<>> THEN <<>>
               ELSE Concat([h \in 1..Len(hotel_events) |-> ForHotel(hotel_events[h])])
    IN Returned(Concat([u \in 1..Len(users) |-> ForUser(users[u])]))

\* <<class, user, hotel city, from city, to city, earliest_start, latest_end,
\* exact_start_time>>: stays over [10, 20] and [10, 12], one with an exact
\* check-in after its check-out; flights arriving shortly before check-in,
\* shortly after it, inside the stay, and departing shortly after check-out
ShapesTemporal ==
    { <<"HotelEvent", "u1", "A", None, None, 10, 20, NoTime>>,
      <<"HotelEvent", "u1", "A", None, None, 10, 12, NoTime>>,
      <<"HotelEvent", "u1", "A", None, None, 10, 20, 21>>,
      <<"HotelEvent", "u1", None, None, None, 10, 20, NoTime>>,
      <<"HotelEvent", "u2", "A", None, None, 10, 20, NoTime>>,
      <<"FlightEvent", "u2", None, "B", "C", 13, 15, NoTime>> }
    \cup { <<"FlightEvent", "u1", None, r[1], r[2], w[1], w[2], NoTime>> :
             r \in {<<"B", "A">>, <<"A", "B">>, <<"B", "C">>, <<"A", "A">>, <<None, "B">>},
             w \in {<<5, 8>>, <<8, 12>>, <<13, 15>>, <<21, 24>>} }

GroupsTemporal(n) ==
    { [i \in 1..n |-> [event_id |-> i, kind |-> f[i][1], user_id |-> f[i][2],
                       city |-> f[i][3], from_location |-> f[i][4],
                       to_location |-> f[i][5],
                       earliest_start |-> f[i][6], latest_end |-> f[i][7],
                       exact_start_time |-> f[i][8], exact_end_time |-> NoTime]] :
        f \in [1..n -> ShapesTemporal] }

InitTemporal ==
    /\ rule_id = "FD-HOTEL-FLIGHT-TEMPORAL-CONFLICT"
    /\ \E n \in 0..MaxGroupTemporal : events \in GroupsTemporal(n)
    /\ context = <<>>
    /\ result = NotRun
    /\ locals = <<>>
    /\ pc = "ready"

DetectHotelFlightTemporalConflict ==
    /\ rule_id = "FD-HOTEL-FLIGHT-TEMPORAL-CONFLICT"
    /\ pc = "ready"
    /\ result' = IF events = <<>> THEN Returned(<<>>)
                 ELSE detect_hotel_flight_temporal_conflict(events)
    /\ pc' = "done"
    /\ UNCHANGED <<rule_id, events, context, locals>>

NextTemporal == DetectHotelFlightTemporalConflict

SpecTemporal == InitTemporal /\ [][NextTemporal]_vars

\* the positions, in the findings, of those of one (hotel, flight) pair
PairFindings(hotel_id, flight_id) ==
    { f \in 1..Len(result.findings) :
        /\ result.findings[f].hotel_event_id = hotel_id
        /\ result.findings[f].flight_event_id = flight_id }

\* the conflict types reported for one (hotel, flight) pair
PairConflictTypes(hotel_id, flight_id) ==
    { result.findings[f].conflict_type : f \in PairFindings(hotel_id, flight_id) }

\* C27: a (hotel, flight) pair of one user yields at most two findings;
\* arrival_during_stay and impossible_checkin_after_flight never both, and
\* departure_during_stay and impossible_checkout_before_flight never both;
\* no finding when the flight departs from and arrives in the hotel city.
C27_AtMostTwoFindingsPerPair ==
    pc = "done" =>
        \A i, j \in 1..Len(events) :
            (events[i].kind = "HotelEvent" /\ events[j].kind = "FlightEvent") =>
                LET types == PairConflictTypes(events[i].event_id, events[j].event_id)
                IN /\ Cardinality(PairFindings(events[i].event_id, events[j].event_id)) <= 2
                   /\ ~({"arrival_during_stay", "impossible_checkin_after_flight"}
                           \subseteq types)
                   /\ ~({"departure_during_stay", "impossible_checkout_before_flight"}
                           \subseteq types)
                   /\ (/\ events[j].from_location = events[i].city
                       /\ events[j].to_location = events[i].city) => types = {}

\* C27 witness: a pair yields two findings, and in the same group a flight
\* from the hotel city to the hotel city inside the stay yields none.
C27_Witness ==
    /\ pc = "done"
    /\ \E i, j, k \in 1..Len(events) :
          /\ events[i].kind = "HotelEvent"
          /\ events[j].kind = "FlightEvent"
          /\ events[k].kind = "FlightEvent"
          /\ Cardinality(PairFindings(events[i].event_id, events[j].event_id)) = 2
          /\ events[k].user_id = events[i].user_id
          /\ events[k].from_location = events[i].city
          /\ events[k].to_location = events[i].city
          /\ EffectiveStart(events[k]) > EffectiveStart(events[i])
          /\ EffectiveEnd(events[k]) < EffectiveEnd(events[i])
          /\ PairFindings(events[i].event_id, events[k].event_id) = {}

====
